---- MODULE Spec2Model ----
(***************************************************************************)
(* A model of the module-scoped datastore engine of sysrepo:               *)
(*   - modinfo.c  (src/unnamed/part_000, lines 1-2225): the module-info    *)
(*     set, dependency closure, permission gate, loader, running-data      *)
(*     cache and datastore writer;                                         *)
(*   - common.c   (src/src/common.c): the RW lock over mutex + condition   *)
(*     variable, the datastore file read/write helpers, the subscription   *)
(*     structure, the Ext SHM arrays and the recorded lock state;          *)
(*   - shm.h      (src/unnamed/part_000, lines 3777-4940): declarations of *)
(*     the module locking routines, whose bodies are not part of the       *)
(*     sources at hand.                                                    *)
(*                                                                         *)
(* The module holds several specifications over disjoint groups of         *)
(* variables.  Every specification keeps the variables of the other        *)
(* groups at their idle value.                                             *)
(*   SpecModinfo    sr_modinfo_add_modules on one modinfo (sequential)     *)
(*   SpecLockOrder  concurrent operations locking their modinfo modules    *)
(*   SpecRW         threads on one sr_rwlock_t, statement by statement     *)
(*   SpecStore      loads and stores of module data in the datastore files *)
(*   SpecCache      loads and stores of running data with the cache        *)
(*   SpecOper       operational reads asking the subscribed providers      *)
(*   SpecRecover    connections, their death and the recovery in the SHM   *)
(*   SpecPrune      the static prune of request and subscription XPaths    *)
(*   SpecEdit       one operation: edits, validation, store                *)
(*   SpecSched      installed modules and their scheduled removal          *)
(*   SpecRWLive     SpecRW with the fairness of a running thread           *)
(*   SpecGate       the permission gate on one modinfo                     *)
(*   SpecFilter     a read operation using the tree of the running cache   *)
(*   SpecNotif      the config-change notification and its subscribers     *)
(*   SpecSubs       one subscription structure and its change              *)
(*                  subscriptions                                          *)
(*   SpecExt        the offset arrays of the Ext SHM and its wasted bytes  *)
(*   SpecConnLock   the lock state a connection records, access by access  *)
(***************************************************************************)
EXTENDS Integers, Sequences, FiniteSets, TLC

VARIABLES
    \* ---- group MI: one modinfo and the SHM dependency arrays ----
    data_deps,      \* sr_mod_t.data_deps: module -> sequence of [type, module]
    mods,           \* mod_info->mods: sequence of [shm_mod, state]
    mi_ret,         \* result of the last sr_modinfo_add_modules call
    mi_calls,       \* number of sr_modinfo_add_modules calls on this modinfo
    mi_grew,        \* whether the last call changed mod_count before the gate
    \* ---- group LO: concurrent operations and the module data locks ----
    data_lock,      \* sr_mod_t.data_lock_info[ds].lock: module -> [readers, writer]
    op_mods,        \* mod_info->mods of every operation
    op_pc,          \* position of every operation
    op_i,           \* index of the modinfo entry the lock loop is at
    op_mode,        \* mod_lock of the running sr_modinfo_add_modules call
    op_held,        \* lock mode every operation holds on every module
    op_new,         \* modules locked by the running call
    op_calls,       \* number of sr_modinfo_add_modules calls per operation
    op_before,      \* module locks an operation held when its running call began
    op_cached,      \* mod_info->data_cached of every operation
    \* ---- group RW: one sr_rwlock_t and the threads using it ----
    rw_mutex,       \* rwlock->mutex: the owning thread or "none"
    rw_readers,     \* rwlock->readers
    rw_pc,          \* position of every thread inside sr_rwlock / sr_rwunlock
    rw_mode,        \* mode argument of the running call
    rw_held,        \* mode in which every thread was granted the lock
    rw_ret,         \* [code, expired] result of the last sr_rwlock call
    rw_tmp,         \* value of readers read outside the mutex
    rw_fallback,    \* build without SR_HAVE_PTHREAD_MUTEX_TIMEDLOCK
    rw_expirations, \* number of expired deadlines so far
    \* ---- group ST: module data in files, in SHM and in the cache ----
    ds_file,        \* datastore file of every module and datastore
    shm_ver,        \* sr_mod_t.ver of every module
    data_lock_info, \* sr_mod_t.data_lock_info[ds].lock: [readers, writer]
    mod_cache,      \* conn->mod_cache of the caching connection
    thr,            \* the operation every thread runs and its position
    \* ---- connections in the main SHM and their recovery ----
    shm,            \* [alive, conns, subs, mlock, lock, pc, late]
    \* ---- the static prune of operational subscriptions ----
    px,             \* [req, sub, pc, ret]: one call of sr_xpath_oper_data_required
    \* ---- one modinfo with its data tree, diff and an edit ----
    ed,             \* [mods, data, diff, edit, create_diff, pc, ret]
    \* ---- installed modules, scheduled removals and the connections ----
    sch,            \* [state, conns, last]
    \* ---- one call of the permission gate ----
    pg,             \* [pc, mods, strict, eaccess, out]
    \* ---- one modinfo of a read operation and its use of the cache tree ----
    flt,            \* [pc, ds, session, data_cached, data, rlock, shared_changed, applied, ret]
    \* ---- the notification subscribers of one module and one commit ----
    nf,             \* [pc, subs, replay, got, ret]
    \* ---- one subscription structure (sr_subscription_ctx_t) ----
    sb,             \* [subs_lock, change_subs, pc, last]
    \* ---- the Ext SHM with one offset array ----
    ext,            \* [size, wasted, off, count, dyn, last]
    \* ---- the recorded lock state of one connection (sr_conn_shm_lock_t) ----
    cs              \* [mode, rcount, lock, thr]

vars_mi == <<data_deps, mods, mi_ret, mi_calls, mi_grew>>
vars_lo == <<data_lock, op_mods, op_pc, op_i, op_mode, op_held, op_new, op_calls,
            op_before, op_cached>>

vars_rw == <<rw_mutex, rw_readers, rw_pc, rw_mode, rw_held, rw_ret, rw_tmp,
             rw_fallback, rw_expirations>>

vars_st == <<ds_file, shm_ver, data_lock_info, mod_cache, thr>>

vars_x == <<nf, sb, ext, cs>>

vars == <<vars_mi, vars_lo, vars_rw, vars_st, shm, px, ed, sch, pg, flt, vars_x>>

(* the variables outside each group *)
not_mi == <<vars_lo, vars_rw, vars_st, shm, px, ed, sch, pg, flt, vars_x>>
not_lo == <<vars_mi, vars_rw, vars_st, shm, px, ed, sch, pg, flt, vars_x>>
not_rw == <<vars_mi, vars_lo, vars_st, shm, px, ed, sch, pg, flt, vars_x>>
not_st == <<vars_mi, vars_lo, vars_rw, shm, px, ed, sch, pg, flt, vars_x>>

----------------------------------------------------------------------------
(* Installed modules. A module is identified with the address of its       *)
(* descriptor in main SHM: module 1 lies at the lowest address.            *)
Modules == {1, 2, 3}

(* Order in which ly_ctx_get_module_iter returns the implemented modules;  *)
(* it is the load order of the context, not the SHM address order.         *)
CtxOrder == <<3, 1, 2>>

(* Module state bits (common.h, not among the sources; the order           *)
(* REQ > INV_DEP > DEP is the one modinfo.c compares with).                *)
MOD_INFO_DEP == 1
MOD_INFO_INV_DEP == 2
MOD_INFO_REQ == 4
MOD_INFO_TYPE_MASK == 7
MOD_INFO_DATA == 8
MOD_INFO_CHANGED == 16

(* Bound on the number of sr_modinfo_add_modules calls on one modinfo. *)
MaxCalls == 2

(* state & bit, for a single bit *)
HasBit(state, bit) == (state \div bit) % 2 = 1

(* state & MOD_INFO_TYPE_MASK *)
TypeOf(state) == state % (MOD_INFO_TYPE_MASK + 1)

(* Inverse data dependencies of module m: the modules holding a REF        *)
(* dependency on m, in address order (built by the installer).             *)
RECURSIVE SeqOfSet(_)
SeqOfSet(S) ==
    IF S = {} THEN <<>>
    ELSE LET x == CHOOSE y \in S : \A z \in S : y <= z
         IN <<x>> \o SeqOfSet(S \ {x})

inv_data_deps(m) ==
    SeqOfSet({n \in Modules : \E k \in 1..Len(data_deps[n]) :
                 data_deps[n][k].type = "REF" /\ data_deps[n][k].module = m})

----------------------------------------------------------------------------
(* sr_modinfo_add_mod: index of ly_mod in mods, or Len(mods)+1 *)
FindMod(ms, m) ==
    IF \E i \in 1..Len(ms) : ms[i].shm_mod = m
    THEN CHOOSE i \in 1..Len(ms) :
            ms[i].shm_mod = m /\ \A j \in 1..(i - 1) : ms[j].shm_mod # m
    ELSE Len(ms) + 1

RECURSIVE sr_modinfo_add_mod(_, _, _, _)
RECURSIVE AddDataDeps(_, _, _, _)
RECURSIVE AddInvDeps(_, _, _, _)

(* the loop over shm_deps[i], from index k on *)
AddDataDeps(ms, deps, k, mod_req_deps) ==
    IF k > Len(deps) THEN ms
    ELSE IF deps[k].type = "INSTID"
         THEN AddDataDeps(ms, deps, k + 1, mod_req_deps)
         ELSE AddDataDeps(sr_modinfo_add_mod(ms, deps[k].module, MOD_INFO_DEP, mod_req_deps),
                          deps, k + 1, mod_req_deps)

(* the loop over shm_inv_deps[i], from index k on *)
AddInvDeps(ms, inv, k, mod_req_deps) ==
    IF k > Len(inv) THEN ms
    ELSE AddInvDeps(sr_modinfo_add_mod(ms, inv[k], MOD_INFO_INV_DEP, mod_req_deps),
                    inv, k + 1, mod_req_deps)

(* mod_req_deps is a subset of {"DEP", "INV_DEP"} *)
sr_modinfo_add_mod(ms, m, mod_type, mod_req_deps) ==
    LET i == FindMod(ms, m)
        found == i <= Len(ms)
        upgrade == found /\ TypeOf(ms[i].state) < mod_type
        prev_mod_type == IF upgrade THEN ms[i].state ELSE 0
        ms1 == IF upgrade THEN [ms EXCEPT ![i].state = mod_type] ELSE ms
        cur_i == i
        ms2 == IF prev_mod_type < MOD_INFO_DEP
               THEN Append(ms1, [shm_mod |-> m, state |-> mod_type])
               ELSE ms1
    IN  IF found /\ ~upgrade THEN ms
        ELSE IF ("DEP" \notin mod_req_deps) \/ (ms2[cur_i].state < MOD_INFO_INV_DEP)
        THEN ms2
        ELSE LET ms3 == IF prev_mod_type < MOD_INFO_INV_DEP
                        THEN AddDataDeps(ms2, data_deps[m], 1, mod_req_deps)
                        ELSE ms2
             IN  IF ("INV_DEP" \notin mod_req_deps) \/ (ms3[cur_i].state < MOD_INFO_REQ)
                 THEN ms3
                 ELSE IF prev_mod_type < MOD_INFO_REQ
                      THEN AddInvDeps(ms3, inv_data_deps(m), 1, mod_req_deps)
                      ELSE ms3

(* sr_modinfo_qsort_cmp *)
sr_modinfo_qsort_cmp_rev(mod1, mod2) ==
    IF mod1.shm_mod > mod2.shm_mod THEN -1
    ELSE IF mod1.shm_mod < mod2.shm_mod THEN 1
    ELSE 0

sr_modinfo_qsort_cmp(mod1, mod2) ==
    IF mod1.shm_mod > mod2.shm_mod THEN 1
    ELSE IF mod1.shm_mod < mod2.shm_mod THEN -1
    ELSE 0

(* qsort(mods, mod_count, ..., sr_modinfo_qsort_cmp): insertion of each    *)
(* element in front of the first greater one.                              *)
RECURSIVE InsertSorted(_, _)
InsertSorted(sorted, e) ==
    IF sorted = <<>> THEN <<e>>
    ELSE IF sr_modinfo_qsort_cmp(e, Head(sorted)) < 0
         THEN <<e>> \o sorted
         ELSE <<Head(sorted)>> \o InsertSorted(Tail(sorted), e)

RECURSIVE qsort(_)
qsort(ms) ==
    IF ms = <<>> THEN <<>>
    ELSE InsertSorted(qsort(Tail(ms)), Head(ms))

(* a permission check that grants every access *)
PermCheckGrantsAll(eaccess, strict) ==
    [err |-> IF eaccess = "ERR" THEN "SYS" ELSE "OK", has_access |-> TRUE]

(* sr_perm_check(mod_name, wr, strict ? NULL : &has_access). eaccess is    *)
(* the outcome of eaccess() on the startup file for the requested mode:    *)
(* "OK", "EACCES" or "ERR" (-1 with another errno)                         *)
sr_perm_check(eaccess, strict) ==
    IF eaccess = "OK" THEN [err |-> "OK", has_access |-> TRUE]
    ELSE IF eaccess = "EACCES"
         THEN [err |-> IF strict THEN "UNAUTHORIZED" ELSE "OK", has_access |-> FALSE]
         ELSE [err |-> "SYS", has_access |-> FALSE]

(* sr_modinfo_perm_check. access[m] is the outcome of eaccess() on the     *)
(* startup file of m for the requested mode. Result: [err, mods].          *)
RECURSIVE PermLoop(_, _, _, _)
PermLoop(ms, i, strict, access) ==
    IF i > Len(ms) THEN [err |-> "OK", mods |-> ms]
    ELSE IF HasBit(ms[i].state, MOD_INFO_REQ) \/ HasBit(ms[i].state, MOD_INFO_CHANGED)
         THEN LET r == sr_perm_check(access[ms[i].shm_mod], strict)
              IN  IF r.err # "OK"
                  THEN [err |-> r.err, mods |-> ms]
                  ELSE IF ~strict /\ ~r.has_access
                       THEN PermLoop(SubSeq(ms, 1, i - 1) \o SubSeq(ms, i + 1, Len(ms)),
                                     i, strict, access)
                       ELSE PermLoop(ms, i + 1, strict, access)
         ELSE PermLoop(ms, i + 1, strict, access)

sr_modinfo_perm_check(ms, strict, access) == PermLoop(ms, 1, strict, access)

(* the loop of sr_modinfo_add_modules over mod_set->objs, or over all the  *)
(* implemented modules when the set is empty                               *)
RECURSIVE AddAll(_, _, _, _, _)
AddAll(ms, seq, k, mod_type, mod_deps) ==
    IF k > Len(seq) THEN ms
    ELSE AddAll(sr_modinfo_add_mod(ms, seq[k], mod_type, mod_deps), seq, k + 1, mod_type, mod_deps)

(* sr_modinfo_add_modules, lines 1543-1563: the modules of the set, or all *)
(* the implemented modules without dependencies when the set is empty      *)
AddSeeds(ms, mod_set, mod_type, mod_deps) ==
    IF Len(mod_set) > 0
    THEN AddAll(ms, mod_set, 1, mod_type, mod_deps)
    ELSE AddAll(ms, CtxOrder, 1, mod_type, {})

(* sr_modinfo_data_load on a modinfo whose locks are held: every module    *)
(* without DATA is loaded in turn; fail_at is the index of the entry whose *)
(* load fails (0: none).                                                   *)
LoadFlags(ms, fail_at) ==
    [i \in 1..Len(ms) |->
        IF (fail_at = 0 \/ i < fail_at) /\ ~HasBit(ms[i].state, MOD_INFO_DATA)
        THEN [ms[i] EXCEPT !.state = @ + MOD_INFO_DATA]
        ELSE ms[i]]

(* index of the first entry without DATA at or after k, 0 if none *)
FirstUnloaded(ms) ==
    IF \E i \in 1..Len(ms) : ~HasBit(ms[i].state, MOD_INFO_DATA)
    THEN CHOOSE i \in 1..Len(ms) : /\ ~HasBit(ms[i].state, MOD_INFO_DATA)
                                   /\ \A j \in 1..(i - 1) : HasBit(ms[j].state, MOD_INFO_DATA)
    ELSE 0

----------------------------------------------------------------------------
(* Inputs of sr_modinfo_add_modules *)
SeedSets == {<<>>, <<1>>, <<2>>, <<3>>, <<3, 1>>}
(* mod_type (SR_MI_MOD_DEPS) and mod_deps of a call *)
Kinds == {[as_deps |-> FALSE, mod_deps |-> {}],
          [as_deps |-> FALSE, mod_deps |-> {"DEP"}],
          [as_deps |-> FALSE, mod_deps |-> {"DEP", "INV_DEP"}],
          [as_deps |-> TRUE, mod_deps |-> {"DEP"}]}
(* SR_MI_PERM_NO, or the check with SR_MI_PERM_STRICT and the module the   *)
(* caller is denied (the eaccess() outcome)                                *)
GateInputs == {[perm |-> "NO", strict |-> FALSE, denied |-> {}]}
                \cup {[perm |-> "CHECK", strict |-> st, denied |-> {m}] :
                         st \in BOOLEAN, m \in Modules}
Outcomes == {"lock_fail", "data_no", "load_ok", "load_fail"}

(* Dependency arrays the modules may have in ext SHM *)
DepArraysOf(m) ==
    CASE m = 1 -> {<<>>, <<[type |-> "REF", module |-> 2]>>,
                   <<[type |-> "INSTID", module |-> 2]>>,
                   <<[type |-> "INSTID", module |-> 3], [type |-> "REF", module |-> 2]>>}
      [] m = 2 -> {<<>>, <<[type |-> "REF", module |-> 3]>>}
      [] m = 3 -> {<<>>, <<[type |-> "REF", module |-> 1]>>}

(* ext SHM without any dependency *)
NoDeps == [m \in Modules |-> <<>>]

Ops == {"A", "B"}

IdleMI ==
    /\ data_deps = NoDeps
    /\ mods = <<>>
    /\ mi_ret = "none"
    /\ mi_calls = 0
    /\ mi_grew = FALSE

IdleLO ==
    /\ data_lock = [m \in Modules |-> [readers |-> 0, writer |-> "none"]]
    /\ op_mods = [o \in Ops |-> <<>>]
    /\ op_pc = [o \in Ops |-> "idle"]
    /\ op_i = [o \in Ops |-> 0]
    /\ op_mode = [o \in Ops |-> "NONE"]
    /\ op_held = [o \in Ops |-> [m \in Modules |-> "NONE"]]
    /\ op_new = [o \in Ops |-> {}]
    /\ op_calls = [o \in Ops |-> 0]
    /\ op_before = [o \in Ops |-> [m \in Modules |-> "NONE"]]
    /\ op_cached = [o \in Ops |-> FALSE]

Threads == {"t1", "t2", "t3"}

IdleRW ==
    /\ rw_mutex = "none"
    /\ rw_readers = 0
    /\ rw_pc = [t \in Threads |-> "idle"]
    /\ rw_mode = [t \in Threads |-> "NONE"]
    /\ rw_held = [t \in Threads |-> "NONE"]
    /\ rw_ret = [t \in Threads |-> [code |-> "none", expired |-> FALSE]]
    /\ rw_tmp = [t \in Threads |-> 0]
    /\ rw_fallback = FALSE
    /\ rw_expirations = 0

(* Modules, datastores and threads of group ST.  Threads r1 and r2 read    *)
(* through connection A, which has SR_CONN_CACHE_RUNNING; thread w writes  *)
(* through connection A or through connection B, which does not cache.     *)
StMods == {1}
DS == {"startup", "running", "candidate", "operational"}
StThreads == {"r1", "r2", "w"}

(* Bound on the descriptor ver (a uint32_t counter). *)
MaxVer == 3

(* the connections of the connection list in the main SHM *)
Conns == {"c1", "c2", "c3"}

(* images of a datastore file: a complete image of content c, a truncated  *)
(* or partly written one, or no file                                       *)
Whole(c) == [img |-> "whole", c |-> c]
Part == [img |-> "part", c |-> 0]
Absent == [img |-> "absent", c |-> 0]

NoOp == [kind |-> "none", conn |-> "A", ds |-> "running", m |-> 1, cache |-> FALSE]
IdleThread == [pc |-> "idle", op |-> NoOp, cached |-> FALSE, i |-> 0, found |-> FALSE,
               err |-> "OK", got |-> "none", sent |-> <<>>, cb |-> FALSE,
               reply |-> "none"]

(* the installed state: running and startup data of version 1, no          *)
(* candidate, an empty stored operational diff; every connection alive and *)
(* without subscriptions or locks                                          *)
(* the modules of the modinfo that takes an edit: a and b are required, c  *)
(* depends on them (an inverse dependency)                                 *)
EdMods == <<"a", "b", "c">>

(* a modinfo of an operation on running data with the data of its modules  *)
(* loaded, no diff and no edit applied yet; file and ver are the datastore *)
(* files and the sr_mod_t.ver of the modules                               *)
IdleEd == [pc |-> "idle",
           mods |-> [i \in 1..Len(EdMods) |->
                       [ly_mod |-> EdMods[i],
                        state |-> (IF EdMods[i] = "c" THEN MOD_INFO_INV_DEP ELSE MOD_INFO_REQ)
                                    + MOD_INFO_DATA]],
           data |-> [m \in {"a", "b", "c"} |-> 0],
           diff |-> [m \in {"a", "b", "c"} |-> <<>>],
           file |-> [m \in {"a", "b", "c"} |-> 0],
           ver |-> [m \in {"a", "b", "c"} |-> 1],
           edit |-> <<>>, calls |-> 0, invalid |-> {},
           fail |-> [at |-> 0, step |-> "none"], ret |-> "none"]

(* no call of the permission gate has been made *)
IdlePg == [pc |-> "idle", mods |-> <<>>, strict |-> FALSE,
           eaccess |-> [m \in Modules |-> "OK"], out |-> [err |-> "OK", mods |-> <<>>]]

(* a modinfo after SR_MODINFO_INIT: no data, data_cached 0 *)
IdleFlt == [pc |-> "idle", ds |-> "running",
            session |-> [ev |-> "SR_SUB_EV_NONE", edit |-> FALSE, diff |-> FALSE],
            data_cached |-> FALSE, data |-> "none",
            rlock |-> FALSE, shared_changed |-> FALSE, applied |-> FALSE, ret |-> "none"]

IdleNf == [pc |-> "idle", subs |-> <<>>, replay |-> FALSE, got |-> {}, stored |-> FALSE,
           in |-> [changes |-> FALSE, ds |-> "running", build |-> "ok", scan |-> "first_count"],
           ret |-> "none"]
IdleSb == [pc |-> "idle", subs_lock |-> "free",
           change |-> [array |-> "NULL", count |-> 0, items |-> <<>>],
           last |-> [op |-> "none", sess |-> "none", ret |-> "none",
                     before |-> [array |-> "NULL", count |-> 0, items |-> <<>>]]]
IdleExt == [size |-> 8, wasted |-> 0,
            arr |-> [a \in {"evpipes", "change_subs"} |-> [off |-> 0, count |-> 0, dyn |-> <<>>]],
            last |-> [op |-> "none", relocated |-> FALSE, ret |-> "none"]]
IdleCs == [mode |-> "NONE", rcount |-> 0, lock |-> [readers |-> 0, writer |-> "none"],
           thr |-> [t \in {"c1", "c2", "c3"} |-> [pc |-> "idle", held |-> "NONE", tmp |-> 0]]]

IdleST ==
    /\ ds_file = [m \in StMods |-> [d \in DS |->
                     CASE d = "running" -> Whole(1)
                       [] d = "candidate" -> Absent
                       [] OTHER -> Whole(0)]]
    /\ shm_ver = [m \in StMods |-> 1]
    /\ data_lock_info = [m \in StMods |-> [d \in DS |-> [readers |-> 0, writer |-> "none"]]]
    /\ mod_cache = [mods |-> <<>>, alloc |-> 0, data |-> [m \in StMods |-> <<>>],
                    lock |-> [readers |-> 0, writer |-> "none"]]
    /\ thr = [t \in StThreads |-> IdleThread]
    /\ shm = [alive |-> [c \in Conns |-> TRUE], conns |-> Conns,
              subs |-> [c \in Conns |-> 0], mlock |-> "none", lock |-> "none",
              pc |-> [c \in Conns |-> "idle"], late |-> [c \in Conns |-> FALSE]]
    /\ px = [pc |-> "idle", req |-> <<>>, sub |-> <<>>, ret |-> 1]
    /\ ed = IdleEd
    /\ sch = [state |-> [m \in {"m1", "m2", "m3"} |-> "installed"], conns |-> 0,
              last |-> [m |-> "none", ret |-> "none"]]
    /\ pg = IdlePg
    /\ flt = IdleFlt
    /\ nf = IdleNf
    /\ sb = IdleSb
    /\ ext = IdleExt
    /\ cs = IdleCs

InitMI ==
    /\ IdleLO
    /\ IdleRW
    /\ IdleST
    /\ data_deps \in {d \in [Modules -> UNION {DepArraysOf(m) : m \in Modules}] :
                         \A m \in Modules : d[m] \in DepArraysOf(m)}
    /\ mods = <<>>
    /\ mi_ret = "none"
    /\ mi_calls = 0
    /\ mi_grew = FALSE

(* sr_modinfo_add_modules(mod_info, mod_set, mod_deps, mod_lock, mi_opts,  *)
(* ...), the whole call. mod_set: sequence of modules; kind: mod_deps and  *)
(* SR_MI_MOD_DEPS; gate_in: SR_MI_PERM_NO or the check with                *)
(* SR_MI_PERM_STRICT and the eaccess() outcomes; outcome: the              *)
(* result of the module locking and of the data load (SR_MI_DATA_NO: no    *)
(* load; load_fail: the load of the first unloaded module fails).          *)
AddModules(mod_set, kind, gate_in, outcome) ==
    LET mod_type == IF kind.as_deps THEN MOD_INFO_DEP ELSE MOD_INFO_REQ
        mod_deps == kind.mod_deps
        prev_mod_count == Len(mods)
        added == AddSeeds(mods, mod_set, mod_type, mod_deps)
        access == [m \in Modules |-> IF m \in gate_in.denied THEN "EACCES" ELSE "OK"]
        gate == IF gate_in.perm = "NO" THEN [err |-> "OK", mods |-> added]
                ELSE sr_modinfo_perm_check(added, gate_in.strict, access)
        sorted == qsort(gate.mods)
        fail_at == IF outcome = "load_fail" THEN FirstUnloaded(sorted) ELSE 0
    IN  /\ mi_ret \in {"none", "OK"}
        /\ mi_calls < MaxCalls
        /\ mi_calls' = mi_calls + 1
        /\ mi_grew' = (prev_mod_count # Len(added))
        /\ IF prev_mod_count = Len(added)
           THEN mods' = added /\ mi_ret' = "OK"
           ELSE IF gate.err # "OK"
           THEN mods' = gate.mods /\ mi_ret' = gate.err
           ELSE IF outcome = "lock_fail"
           THEN mods' = sorted /\ mi_ret' = "TIME_OUT"
           ELSE IF outcome = "data_no"
           THEN mods' = sorted /\ mi_ret' = "OK"
           ELSE /\ mods' = LoadFlags(sorted, fail_at)
                /\ mi_ret' = IF fail_at # 0 THEN "SYS" ELSE "OK"
        /\ UNCHANGED <<data_deps, not_mi>>

sr_modinfo_add_modules ==
    \E mod_set \in SeedSets, kind \in Kinds, gate_in \in GateInputs, outcome \in Outcomes :
        AddModules(mod_set, kind, gate_in, outcome)

(* sr_modinfo_free followed by the initialisation of a new modinfo: every  *)
(* caller frees the modinfo after the operation, and after a failed call.  *)
sr_modinfo_free ==
    /\ mi_ret # "none"
    /\ mods' = <<>>
    /\ mi_ret' = "none"
    /\ mi_calls' = 0
    /\ mi_grew' = FALSE
    /\ UNCHANGED <<data_deps, not_mi>>

NextMI == sr_modinfo_add_modules \/ sr_modinfo_free

SpecModinfo == InitMI /\ [][NextMI]_vars

----------------------------------------------------------------------------
(* C1: after every successful sr_modinfo_add_modules call, first or later, *)
(* the modinfo holds no descriptor twice and its entries are strictly      *)
(* ascending by descriptor address.                                        *)
C1_CanonicalOrder ==
    (mi_ret = "OK" /\ mi_calls >= 1) =>
        /\ \A i \in 1..Len(mods), j \in 1..Len(mods) :
              i # j => mods[i].shm_mod # mods[j].shm_mod
        /\ \A i \in 1..(Len(mods) - 1) : mods[i].shm_mod < mods[i + 1].shm_mod

(* a second call that extended a modinfo of at least one module succeeded  *)
C1_Witness ==
    /\ mi_ret = "OK" /\ mi_calls = 2 /\ mi_grew
    /\ Len(mods) = 3

----------------------------------------------------------------------------
(* Concurrent operations (group LO).  Every operation owns a modinfo, adds *)
(* modules to it with one or more sr_modinfo_add_modules calls and locks   *)
(* them with sr_shmmod_modinfo_rdlock / sr_shmmod_modinfo_wrlock.  The      *)
(* bodies of these two are not among the sources: the loop below follows   *)
(* their contract (entries in modinfo order, an entry the operation holds  *)
(* already is skipped, a failure releases what the call locked).           *)

(* sr_rwlock, seen from outside the lock: a WRITE holder keeps the mutex,  *)
(* a reader needs the mutex for its increment, a writer needs the mutex    *)
(* and readers == 0.                                                       *)
sr_rwlock_granted(lock, mode) ==
    IF mode = "WRITE"
    THEN lock.writer = "none" /\ lock.readers = 0
    ELSE lock.writer = "none"

sr_rwlock_take(lock, mode, who) ==
    IF mode = "WRITE"
    THEN [lock EXCEPT !.writer = who]
    ELSE [lock EXCEPT !.readers = @ + 1]

(* sr_rwunlock that leaves the lock as it is *)
sr_rwlock_keep(lock, mode) == lock

(* sr_rwunlock *)
sr_rwlock_drop(lock, mode) ==
    IF mode = "WRITE"
    THEN [lock EXCEPT !.writer = "none"]
    ELSE IF mode = "READ" /\ lock.readers > 0
         THEN [lock EXCEPT !.readers = @ - 1]
         ELSE lock

LockModes == {"READ", "WRITE"}

(* the module the lock loop of operation o is at *)
LockTarget(o) == op_mods[o][op_i[o]].shm_mod

(* sr_modinfo_add_modules up to the call of the lock loop *)
OpAddModules(o, mod_set, mod_lock) ==
    LET prev_mod_count == Len(op_mods[o])
        added == AddSeeds(op_mods[o], mod_set, MOD_INFO_REQ, {})
    IN  /\ op_pc[o] \in {"idle", "locked"}
        /\ op_calls[o] < MaxCalls
        /\ op_calls' = [op_calls EXCEPT ![o] = @ + 1]
        /\ IF prev_mod_count = Len(added)
           THEN UNCHANGED <<op_mods, op_pc, op_i, op_mode, op_new, op_before>>
           ELSE /\ op_mods' = [op_mods EXCEPT ![o] = qsort(added)]
                /\ op_before' = [op_before EXCEPT ![o] = op_held[o]]
                /\ op_pc' = [op_pc EXCEPT ![o] = "locking"]
                /\ op_i' = [op_i EXCEPT ![o] = 1]
                /\ op_mode' = [op_mode EXCEPT ![o] = mod_lock]
                /\ op_new' = [op_new EXCEPT ![o] = {}]
        /\ UNCHANGED <<data_lock, op_held, op_cached, not_lo>>

(* one iteration of the lock loop: the entry is held already, or its lock  *)
(* is granted                                                              *)
OpLockNext(o) ==
    /\ op_pc[o] = "locking"
    /\ LET m == LockTarget(o)
           last == op_i[o] = Len(op_mods[o])
       IN  /\ \/ /\ op_held[o][m] # "NONE"
                 /\ UNCHANGED <<data_lock, op_held, op_new>>
              \/ /\ op_held[o][m] = "NONE"
                 /\ sr_rwlock_granted(data_lock[m], op_mode[o])
                 /\ data_lock' = [data_lock EXCEPT ![m] = sr_rwlock_take(@, op_mode[o], o)]
                 /\ op_held' = [op_held EXCEPT ![o][m] = op_mode[o]]
                 /\ op_new' = [op_new EXCEPT ![o] = @ \cup {m}]
           /\ op_i' = [op_i EXCEPT ![o] = IF last THEN 0 ELSE @ + 1]
           /\ op_pc' = [op_pc EXCEPT ![o] = IF last THEN "loading" ELSE "locking"]
    /\ UNCHANGED <<op_mods, op_mode, op_calls, op_before, op_cached, not_lo>>

(* the timed wait for the entry's lock expires: the locks of this call are *)
(* released and the call fails                                             *)
OpLockTimeout(o) ==
    /\ op_pc[o] = "locking"
    /\ op_held[o][LockTarget(o)] = "NONE"
    /\ ~sr_rwlock_granted(data_lock[LockTarget(o)], op_mode[o])
    /\ data_lock' = [m \in Modules |->
                        IF m \in op_new[o] THEN sr_rwlock_drop(data_lock[m], op_held[o][m])
                        ELSE data_lock[m]]
    /\ op_held' = [op_held EXCEPT ![o] =
                        [m \in Modules |-> IF m \in op_new[o] THEN "NONE" ELSE @[m]]]
    /\ op_new' = [op_new EXCEPT ![o] = {}]
    /\ op_pc' = [op_pc EXCEPT ![o] = "failed"]
    /\ UNCHANGED <<op_mods, op_i, op_mode, op_calls, op_before, op_cached, not_lo>>

(* the end of sr_modinfo_add_modules after the lock loop: with             *)
(* SR_MI_DATA_NO nothing is loaded; sr_modinfo_data_load takes the cache   *)
(* READ lock when the call asks for cached data and the modinfo does not   *)
(* hold it yet                                                             *)
OpDataLoad(o, mi_opts) ==
    /\ op_pc[o] = "loading"
    /\ op_pc' = [op_pc EXCEPT ![o] = "locked"]
    /\ IF mi_opts = "SR_MI_DATA_CACHE" /\ ~op_cached[o]
       THEN /\ sr_rwlock_granted(mod_cache.lock, "READ")
            /\ mod_cache' = [mod_cache EXCEPT !.lock = sr_rwlock_take(@, "READ", o)]
            /\ op_cached' = [op_cached EXCEPT ![o] = TRUE]
       ELSE UNCHANGED <<mod_cache, op_cached>>
    /\ UNCHANGED <<data_lock, op_mods, op_i, op_mode, op_held, op_new, op_calls,
                   op_before, vars_mi, vars_rw, ds_file, shm_ver, data_lock_info, thr,
                   shm, px, ed, sch, pg, flt, vars_x>>

(* sr_shmmod_modinfo_unlock and sr_modinfo_free at the end of an operation *)
OpFinish(o) ==
    /\ op_pc[o] \in {"locked", "failed"}
    /\ data_lock' = [m \in Modules |-> sr_rwlock_drop(data_lock[m], op_held[o][m])]
    /\ op_held' = [op_held EXCEPT ![o] = [m \in Modules |-> "NONE"]]
    /\ op_mods' = [op_mods EXCEPT ![o] = <<>>]
    /\ op_pc' = [op_pc EXCEPT ![o] = "idle"]
    /\ op_i' = [op_i EXCEPT ![o] = 0]
    /\ op_mode' = [op_mode EXCEPT ![o] = "NONE"]
    /\ op_new' = [op_new EXCEPT ![o] = {}]
    /\ op_calls' = [op_calls EXCEPT ![o] = 0]
    /\ op_before' = [op_before EXCEPT ![o] = [m \in Modules |-> "NONE"]]
    /\ op_cached' = [op_cached EXCEPT ![o] = FALSE]
    /\ mod_cache' = IF op_cached[o]
                    THEN [mod_cache EXCEPT !.lock = sr_rwlock_drop(@, "READ")]
                    ELSE mod_cache
    /\ UNCHANGED <<vars_mi, vars_rw, ds_file, shm_ver, data_lock_info, thr, shm, px, ed, sch, pg, flt, vars_x>>

InitLO == IdleMI /\ IdleLO /\ IdleRW /\ IdleST

NextLO ==
    \/ \E o \in Ops, mod_set \in SeedSets, mod_lock \in LockModes :
          OpAddModules(o, mod_set, mod_lock)
    \/ \E o \in Ops : OpLockNext(o)
    \/ \E o \in Ops : OpLockTimeout(o)
    \/ \E o \in Ops, mi_opts \in {"SR_MI_DATA_NO", "SR_MI_DATA_CACHE"} : OpDataLoad(o, mi_opts)
    \/ \E o \in Ops : OpFinish(o)

SpecLockOrder == InitLO /\ [][NextLO]_vars

(* operation o waits for a module lock that operation p holds in a         *)
(* conflicting mode                                                        *)
WaitsFor(o, p) ==
    /\ o # p
    /\ op_pc[o] = "locking"
    /\ op_held[o][LockTarget(o)] = "NONE"
    /\ op_held[p][LockTarget(o)] # "NONE"
    /\ (op_mode[o] = "WRITE" \/ op_held[p][LockTarget(o)] = "WRITE")

(* C2: no set of operations is ever in a cyclic wait on module locks, each *)
(* one waiting for a lock another one of the set holds; this includes      *)
(* operations that called sr_modinfo_add_modules more than once.           *)
C2_NoCyclicWait ==
    ~ \E S \in SUBSET Ops :
          /\ S # {}
          /\ \A o \in S : \E p \in S : WaitsFor(o, p)

(* a cyclic wait needs an operation inside a second or later call *)
SingleCallNoCycle ==
    (\E S \in SUBSET Ops : S # {} /\ \A o \in S : \E p \in S : WaitsFor(o, p))
        => \E o \in Ops : op_calls[o] >= 2

C12_ModuleBeforeCache ==
    [][\A o \in Ops :
         (\E m \in Modules : op_held[o][m] = "NONE" /\ op_held'[o][m] # "NONE")
             => ~op_cached[o]]_vars

----------------------------------------------------------------------------
(* One sr_rwlock_t and the threads calling sr_rwlock / sr_rwunlock on it   *)
(* (group RW), statement by statement.  A timed wait may expire whenever   *)
(* the thread is blocked.                                                  *)

(* Bound on the number of deadlines that expire in one run. *)
MaxExpire == 2

RwModes == {"READ", "READ_UPGR", "WRITE"}

(* pthread_mutex_timedlock at deadline expiry: ETIMEDOUT from the C        *)
(* library, the last pthread_mutex_trylock result from the replacement of  *)
(* common.c.                                                               *)
pthread_mutex_timedlock_expired == IF rw_fallback THEN "EBUSY" ELSE "ETIMEDOUT"

(* SR_ERRINFO_LOCK / SR_ERRINFO_COND (common.h): the error class of a      *)
(* failed pthread call                                                     *)
SR_ERRINFO_LOCK(ret) == IF ret = "ETIMEDOUT" THEN "TIME_OUT" ELSE "INTERNAL"
SR_ERRINFO_COND(ret) == IF ret = "ETIMEDOUT" THEN "TIME_OUT" ELSE "INTERNAL"

(* pthread_mutex_unlock by thread t: the owner releases the mutex; for any *)
(* other thread the call is undefined on a default mutex, it releases the  *)
(* mutex or leaves it alone.                                               *)
pthread_mutex_unlock(t) ==
    IF rw_mutex = t \/ rw_mutex = "none" THEN {"none"} ELSE {"none", rw_mutex}

(* pthread_cond_broadcast: every thread inside pthread_cond_timedwait is   *)
(* woken                                                                   *)
pthread_cond_broadcast(pc) ==
    [t \in Threads |-> IF pc[t] = "cond_wait" THEN "cond_woken" ELSE pc[t]]

(* sr_rwlock: pthread_mutex_timedlock succeeds *)
RwLockBegin(t, mode) ==
    /\ rw_pc[t] = "idle" /\ rw_held[t] = "NONE"
    /\ rw_mutex = "none"
    /\ rw_mutex' = t
    /\ rw_pc' = [rw_pc EXCEPT ![t] = "locked_mutex"]
    /\ rw_mode' = [rw_mode EXCEPT ![t] = mode]
    /\ rw_ret' = [rw_ret EXCEPT ![t] = [code |-> "none", expired |-> FALSE]]
    /\ UNCHANGED <<rw_readers, rw_held, rw_tmp, rw_fallback, rw_expirations, not_rw>>

(* sr_rwlock: pthread_mutex_timedlock expires, SR_ERRINFO_LOCK, return *)
RwLockMutexExpire(t, mode) ==
    /\ rw_pc[t] = "idle" /\ rw_held[t] = "NONE"
    /\ rw_mutex \notin {"none", t}
    /\ rw_expirations < MaxExpire
    /\ rw_expirations' = rw_expirations + 1
    /\ rw_mode' = [rw_mode EXCEPT ![t] = mode]
    /\ rw_ret' = [rw_ret EXCEPT ![t] =
                     [code |-> SR_ERRINFO_LOCK(pthread_mutex_timedlock_expired),
                      expired |-> TRUE]]
    /\ UNCHANGED <<rw_mutex, rw_readers, rw_pc, rw_held, rw_tmp, rw_fallback, not_rw>>

(* sr_rwlock with the mutex taken: the WRITE loop test, or the READ branch *)
RwLockBody(t) ==
    /\ rw_pc[t] = "locked_mutex"
    /\ IF rw_mode[t] = "WRITE"
       THEN IF rw_readers = 0
            THEN /\ rw_held' = [rw_held EXCEPT ![t] = "WRITE"]
                 /\ rw_pc' = [rw_pc EXCEPT ![t] = "idle"]
                 /\ rw_ret' = [rw_ret EXCEPT ![t].code = "OK"]
                 /\ UNCHANGED <<rw_mutex, rw_readers>>
            ELSE /\ rw_mutex' \in pthread_mutex_unlock(t)
                 /\ rw_pc' = [rw_pc EXCEPT ![t] = "cond_wait"]
                 /\ UNCHANGED <<rw_held, rw_ret, rw_readers>>
       ELSE /\ rw_readers' = rw_readers + 1
            /\ rw_mutex' \in pthread_mutex_unlock(t)
            /\ rw_held' = [rw_held EXCEPT ![t] = rw_mode[t]]
            /\ rw_pc' = [rw_pc EXCEPT ![t] = "idle"]
            /\ rw_ret' = [rw_ret EXCEPT ![t].code = "OK"]
    /\ UNCHANGED <<rw_mode, rw_tmp, rw_fallback, rw_expirations, not_rw>>

(* pthread_cond_timedwait returns 0 after a broadcast, the mutex retaken *)
RwCondReturn(t) ==
    /\ rw_pc[t] = "cond_woken"
    /\ rw_mutex = "none"
    /\ rw_mutex' = t
    /\ rw_pc' = [rw_pc EXCEPT ![t] = "locked_mutex"]
    /\ UNCHANGED <<rw_readers, rw_mode, rw_held, rw_ret, rw_tmp, rw_fallback,
                   rw_expirations, not_rw>>

(* pthread_cond_timedwait returns ETIMEDOUT with the mutex retaken; the    *)
(* loop ends, the mutex is unlocked, SR_ERRINFO_COND, return               *)
RwCondExpire(t) ==
    /\ rw_pc[t] \in {"cond_wait", "cond_woken"}
    /\ rw_mutex = "none"
    /\ rw_expirations < MaxExpire
    /\ rw_expirations' = rw_expirations + 1
    /\ rw_pc' = [rw_pc EXCEPT ![t] = "idle"]
    /\ rw_ret' = [rw_ret EXCEPT ![t] =
                     [code |-> SR_ERRINFO_COND("ETIMEDOUT"), expired |-> TRUE]]
    /\ UNCHANGED <<rw_mutex, rw_readers, rw_mode, rw_held, rw_tmp, rw_fallback, not_rw>>

(* sr_rwunlock whose pthread_mutex_timedlock, if any, succeeds.  A holder  *)
(* of READ_UPGR unlocks as READ.                                           *)
RwUnlock(t) ==
    /\ rw_pc[t] = "idle" /\ rw_held[t] # "NONE"
    /\ IF rw_held[t] = "WRITE"
       THEN /\ rw_pc' = IF rw_readers = 0 THEN pthread_cond_broadcast(rw_pc) ELSE rw_pc
            /\ rw_mutex' \in pthread_mutex_unlock(t)
            /\ UNCHANGED rw_readers
       ELSE /\ rw_mutex = "none"
            /\ rw_readers' = IF rw_readers = 0 THEN 0 ELSE rw_readers - 1
            /\ rw_pc' = IF rw_readers' = 0 THEN pthread_cond_broadcast(rw_pc) ELSE rw_pc
            /\ UNCHANGED rw_mutex
    /\ rw_held' = [rw_held EXCEPT ![t] = "NONE"]
    /\ UNCHANGED <<rw_mode, rw_ret, rw_tmp, rw_fallback, rw_expirations, not_rw>>

(* sr_rwunlock(READ): pthread_mutex_timedlock expires, the error is freed  *)
(* and the function goes on without the mutex; it reads readers            *)
RwUnlockMutexExpire(t) ==
    /\ rw_pc[t] = "idle" /\ rw_held[t] \in {"READ", "READ_UPGR"}
    /\ rw_mutex \notin {"none", t}
    /\ rw_expirations < MaxExpire
    /\ rw_expirations' = rw_expirations + 1
    /\ rw_tmp' = [rw_tmp EXCEPT ![t] = rw_readers]
    /\ rw_pc' = [rw_pc EXCEPT ![t] = "unlock_nomutex"]
    /\ UNCHANGED <<rw_mutex, rw_readers, rw_mode, rw_held, rw_ret, rw_fallback, not_rw>>

(* ... writes readers, broadcasts and calls pthread_mutex_unlock on a      *)
(* mutex it does not own                                                   *)
RwUnlockNoMutex(t) ==
    /\ rw_pc[t] = "unlock_nomutex"
    /\ rw_readers' = IF rw_tmp[t] = 0 THEN rw_readers ELSE rw_tmp[t] - 1
    /\ rw_pc' = [IF rw_readers' = 0 THEN pthread_cond_broadcast(rw_pc) ELSE rw_pc
                    EXCEPT ![t] = "idle"]
    /\ rw_mutex' \in pthread_mutex_unlock(t)
    /\ rw_held' = [rw_held EXCEPT ![t] = "NONE"]
    /\ rw_tmp' = [rw_tmp EXCEPT ![t] = 0]
    /\ UNCHANGED <<rw_mode, rw_ret, rw_fallback, rw_expirations, not_rw>>

InitRW ==
    /\ IdleMI /\ IdleLO /\ IdleST
    /\ rw_mutex = "none"
    /\ rw_readers = 0
    /\ rw_pc = [t \in Threads |-> "idle"]
    /\ rw_mode = [t \in Threads |-> "NONE"]
    /\ rw_held = [t \in Threads |-> "NONE"]
    /\ rw_ret = [t \in Threads |-> [code |-> "none", expired |-> FALSE]]
    /\ rw_tmp = [t \in Threads |-> 0]
    /\ rw_fallback \in BOOLEAN
    /\ rw_expirations = 0

NextRW ==
    \/ \E t \in Threads, mode \in RwModes : RwLockBegin(t, mode)
    \/ \E t \in Threads, mode \in RwModes : RwLockMutexExpire(t, mode)
    \/ \E t \in Threads : RwLockBody(t)
    \/ \E t \in Threads : RwCondReturn(t)
    \/ \E t \in Threads : RwCondExpire(t)
    \/ \E t \in Threads : RwUnlock(t)
    \/ \E t \in Threads : RwUnlockMutexExpire(t)
    \/ \E t \in Threads : RwUnlockNoMutex(t)

SpecRW == InitRW /\ [][NextRW]_vars

(* the same threads where a thread that can leave pthread_cond_timedwait   *)
(* or go on inside sr_rwlock with the mutex does so                        *)
SpecRWLive ==
    SpecRW /\ \A t \in Threads : WF_vars(RwCondReturn(t)) /\ WF_vars(RwLockBody(t))

(* C8: a WRITE acquire succeeds only with readers == 0, and while a thread *)
(* holds the lock in WRITE mode no other thread holds it in any mode.      *)
C8_WriteExclusive ==
    \A t \in Threads :
        rw_held[t] = "WRITE" =>
            /\ rw_readers = 0
            /\ \A u \in Threads \ {t} : rw_held[u] = "NONE"

(* the same, as long as no deadline expired *)
WriteExclusiveWithMutex ==
    (rw_expirations = 0) => C8_WriteExclusive

(* C9: an acquire that failed on deadline expiry has returned TIME_OUT,    *)
(* and the caller holds neither the lock nor its mutex.                    *)
C9_ExpiryReturnsTimeout ==
    \A t \in Threads :
        (rw_pc[t] = "idle" /\ rw_ret[t].expired) =>
            /\ rw_ret[t].code = "TIME_OUT"
            /\ rw_held[t] = "NONE"
            /\ rw_mutex # t

(* the same with the pthread_mutex_timedlock of the C library *)
ExpiryReturnsTimeoutNative ==
    ~rw_fallback => C9_ExpiryReturnsTimeout

(* C10: at most one thread holds the lock in READ-UPGRADEABLE mode. *)
C10_OneUpgradeable ==
    Cardinality({t \in Threads : rw_held[t] = "READ_UPGR"}) <= 1

----------------------------------------------------------------------------
(* Loads and stores of module data (group ST).  An operation holds one     *)
(* module in its modinfo.  Contents of a file are numbered: the running    *)
(* data written for version v of a module has content v; -1 stands for a   *)
(* tree parsed from a file that another thread is writing, -2 for a tree   *)
(* parsed from a file a failed write left behind.                          *)

(* conn->opts & SR_CONN_CACHE_RUNNING *)
Caching(conn) == conn = "A"

(* sr_modinfo_module_data_load: ds or ds2 is running and the connection    *)
(* caches (ds2 is running for an operational modinfo)                      *)
UsesCache(op) == (op.ds = "running" \/ op.ds = "operational") /\ Caching(op.conn)

(* the operations of the threads under SpecStore: file loads and stores    *)
(* of every datastore through the connection without cache                 *)
StoreOps(t) ==
    IF t = "w"
    THEN {[kind |-> "write", conn |-> "B", ds |-> d, m |-> m, cache |-> FALSE] :
             d \in DS, m \in StMods}
    ELSE {[kind |-> "read", conn |-> "B", ds |-> d, m |-> m, cache |-> FALSE] :
             d \in {"running", "candidate"}, m \in StMods}

(* the operations of the threads under SpecCache: loads of running data    *)
(* through the caching connection, with or without SR_MI_DATA_CACHE, and   *)
(* stores to running through either connection                             *)
CacheOps(t) ==
    IF t = "w"
    THEN {[kind |-> "write", conn |-> c, ds |-> "running", m |-> m, cache |-> FALSE] :
             c \in {"A", "B"}, m \in StMods}
    ELSE {[kind |-> "read", conn |-> "A", ds |-> "running", m |-> m, cache |-> c] :
             m \in StMods, c \in BOOLEAN}

(* the module locks of an operation: its datastore in the mode of the      *)
(* operation, and running in READ mode for an operational modinfo          *)
ModLocksOf(op) ==
    {<<op.ds, IF op.kind = "write" THEN "WRITE" ELSE "READ">>}
        \cup (IF op.ds = "operational" THEN {<<"running", "READ">>} ELSE {})

(* the content sr_modinfo_data_store writes for the operation *)
NewContent(op) ==
    IF op.ds = "running" THEN shm_ver[op.m] + 1
    ELSE IF op.ds = "operational" THEN 1 ELSE 0

(* sr_module_file_data_append: the possible results [ok, data] of opening  *)
(* and parsing the file of (m, ds); a missing candidate file is replaced   *)
(* by the running file                                                     *)
sr_module_file_data_append(m, ds) ==
    LET ds1 == IF ds = "candidate" /\ ds_file[m][ds].img = "absent" THEN "running" ELSE ds
        f == ds_file[m][ds1]
        writing == \E u \in StThreads : /\ thr[u].pc = "store_print"
                                         /\ thr[u].op.m = m /\ thr[u].op.ds = ds1
    IN  CASE f.img = "whole" -> {[ok |-> TRUE, data |-> <<f.c>>]}
          [] f.img = "absent" -> {[ok |-> FALSE, data |-> <<>>]}
          [] OTHER -> {[ok |-> FALSE, data |-> <<>>],
                       [ok |-> TRUE, data |-> <<IF writing THEN -1 ELSE -2>>]}

(* every module lock of the operation is released *)
ModUnlock(t, op) ==
    [data_lock_info EXCEPT ![op.m] =
        [d \in DS |->
            LET ls == {l \in ModLocksOf(op) : l[1] = d}
            IN  IF ls = {} THEN data_lock_info[op.m][d]
                ELSE sr_rwlock_drop(data_lock_info[op.m][d], (CHOOSE l \in ls : TRUE)[2])]]

(* sr_modinfo_add_modules up to the module locks, which are granted *)
StBegin(t, op) ==
    /\ thr[t].pc = "idle"
    /\ (op.kind = "write" /\ op.ds = "running") => shm_ver[op.m] < MaxVer
    /\ \A l \in ModLocksOf(op) : sr_rwlock_granted(data_lock_info[op.m][l[1]], l[2])
    /\ data_lock_info' = [data_lock_info EXCEPT ![op.m] =
          [d \in DS |->
              LET ls == {l \in ModLocksOf(op) : l[1] = d}
              IN  IF ls = {} THEN data_lock_info[op.m][d]
                  ELSE sr_rwlock_take(data_lock_info[op.m][d], (CHOOSE l \in ls : TRUE)[2], t)]]
    /\ thr' = [thr EXCEPT ![t] = [IdleThread EXCEPT
                  !.op = op,
                  !.pc = IF op.kind = "read" THEN "data_load" ELSE "store_open"]]
    /\ UNCHANGED <<ds_file, shm_ver, mod_cache, not_st>>

(* sr_modinfo_data_load, before its loop: the cache READ lock *)
CanCache(op) == op.cache /\ Caching(op.conn) /\ op.ds = "running"

StDataLoad(t) ==
    /\ thr[t].pc = "data_load"
    /\ IF CanCache(thr[t].op)
       THEN /\ sr_rwlock_granted(mod_cache.lock, "READ")
            /\ mod_cache' = [mod_cache EXCEPT !.lock = sr_rwlock_take(@, "READ", t)]
            /\ thr' = [thr EXCEPT ![t].cached = TRUE, ![t].pc = "module_load"]
       ELSE /\ thr' = [thr EXCEPT ![t].pc = "module_load"]
            /\ UNCHANGED mod_cache
    /\ UNCHANGED <<ds_file, shm_ver, data_lock_info, not_st>>

(* ... which times out *)
StDataLoadExpire(t) ==
    /\ thr[t].pc = "data_load"
    /\ CanCache(thr[t].op)
    /\ ~sr_rwlock_granted(mod_cache.lock, "READ")
    /\ thr' = [thr EXCEPT ![t].err = "ERR", ![t].pc = "done"]
    /\ UNCHANGED <<ds_file, shm_ver, data_lock_info, mod_cache, not_st>>

(* sr_modinfo_module_data_load without a cache: the file is read *)
StFileLoad(t) ==
    /\ thr[t].pc = "module_load"
    /\ ~UsesCache(thr[t].op)
    /\ thr[t].op.ds # "operational"
    /\ \E r \in sr_module_file_data_append(thr[t].op.m, thr[t].op.ds) :
          thr' = [thr EXCEPT ![t].err = IF r.ok THEN "OK" ELSE "ERR",
                             ![t].got = IF r.ok THEN r.data ELSE "none",
                             ![t].pc = "done"]
    /\ UNCHANGED <<ds_file, shm_ver, data_lock_info, mod_cache, not_st>>

(* sr_modcache_module_running_update: the search loop; index of the first *)
(* entry of module m, or mod_count + 1                                     *)
CacheFind(ms, m) ==
    IF \E i \in 1..Len(ms) : ms[i].ly_mod = m
    THEN CHOOSE i \in 1..Len(ms) : ms[i].ly_mod = m /\ \A j \in 1..(i - 1) : ms[j].ly_mod # m
    ELSE Len(ms) + 1

(* what an entry outside the allocated array may hold: a pointer to no     *)
(* module, or a module with any version                                    *)
Garbage == {[ly_mod |-> 0, ver |-> 0]} \cup {[ly_mod |-> m, ver |-> MaxVer + 1] : m \in StMods}

(* where a thread goes on after sr_modcache_module_running_update: a load  *)
(* returns its error, sr_modinfo_data_store merges it and goes on          *)
AfterEnsure(t, err) ==
    IF thr[t].op.kind = "write" THEN "store_oper"
    ELSE IF err = "OK" THEN "dup_data" ELSE "done"

(* sr_modcache_module_running_update, lines 761-776 and 786-790: the       *)
(* search, the version test and the READ unlock before the WRITE lock      *)
StEnsureSearch(t) ==
    /\ \/ thr[t].pc = "module_load" /\ UsesCache(thr[t].op)
       \/ thr[t].pc = "store_update"
    /\ LET m == thr[t].op.m
           i == CacheFind(mod_cache.mods, m)
           found == i <= Len(mod_cache.mods)
       IN  IF found /\ ~(shm_ver[m] > mod_cache.mods[i].ver)
           THEN /\ thr' = [thr EXCEPT ![t].pc = AfterEnsure(t, "OK")]
                /\ UNCHANGED mod_cache
           ELSE /\ thr' = [thr EXCEPT ![t].i = i, ![t].found = found,
                                      ![t].pc = "ensure_wlock"]
                /\ mod_cache' = IF thr[t].cached
                                THEN [mod_cache EXCEPT !.lock = sr_rwlock_drop(@, "READ")]
                                ELSE mod_cache
    /\ UNCHANGED <<ds_file, shm_ver, data_lock_info, not_st>>

(* the data the cache is filled with: upd_mod_data of a store, or the      *)
(* running file                                                            *)
EnsureData(t) ==
    IF thr[t].op.kind = "write"
    THEN {[ok |-> TRUE, data |-> <<shm_ver[thr[t].op.m]>>], [ok |-> FALSE, data |-> <<>>]}
    ELSE sr_module_file_data_append(thr[t].op.m, "running")

(* lines 777-828: the WRITE lock is granted; the entry is reset or added,  *)
(* the data are appended, the version is set, the WRITE lock is released   *)
StEnsureWrite(t) ==
    /\ thr[t].pc = "ensure_wlock"
    /\ sr_rwlock_granted(mod_cache.lock, "WRITE")
    /\ LET m == thr[t].op.m
           i == thr[t].i
           n == Len(mod_cache.mods)
       IN  \/ \* realloc fails: SR_CHECK_MEM_RET returns with the WRITE lock held
              /\ ~thr[t].found
              /\ mod_cache' = [mod_cache EXCEPT !.lock = sr_rwlock_take(@, "WRITE", t)]
              /\ thr' = [thr EXCEPT ![t].err = "ERR", ![t].i = 0, ![t].found = FALSE,
                                    ![t].pc = AfterEnsure(t, "ERR")]
           \/ \E g \in Garbage, r \in EnsureData(t) :
                LET mods1 == IF thr[t].found
                             THEN [mod_cache.mods EXCEPT ![i].ver = 0]
                             ELSE [p \in 1..(n + 1) |->
                                     IF p = i THEN [ly_mod |-> m, ver |-> 0]
                                     ELSE IF p < i THEN mod_cache.mods[p] ELSE g]
                    data1 == IF thr[t].found THEN [mod_cache.data EXCEPT ![m] = <<>>]
                             ELSE mod_cache.data
                    err == IF r.ok THEN "OK" ELSE "ERR"
                IN  /\ (thr[t].found \/ i = n + 1) => g = [ly_mod |-> 0, ver |-> 0]
                    /\ mod_cache' = [mod_cache EXCEPT
                          !.mods = IF r.ok THEN [mods1 EXCEPT ![i].ver = shm_ver[m]] ELSE mods1,
                          !.data = IF r.ok THEN [data1 EXCEPT ![m] = @ \o r.data] ELSE data1,
                          !.alloc = IF thr[t].found THEN @ ELSE i]
                    /\ thr' = [thr EXCEPT ![t].err = err, ![t].i = 0, ![t].found = FALSE,
                                          ![t].pc = IF thr[t].cached THEN "ensure_rlock"
                                                    ELSE AfterEnsure(t, err)]
    /\ UNCHANGED <<ds_file, shm_ver, data_lock_info, not_st>>

(* line 778 / 793: the WRITE lock times out, goto error_rlock *)
StEnsureWriteExpire(t) ==
    /\ thr[t].pc = "ensure_wlock"
    /\ ~sr_rwlock_granted(mod_cache.lock, "WRITE")
    /\ thr' = [thr EXCEPT ![t].err = "ERR", ![t].i = 0, ![t].found = FALSE,
                          ![t].pc = IF thr[t].cached THEN "ensure_rlock"
                                    ELSE AfterEnsure(t, "ERR")]
    /\ UNCHANGED <<ds_file, shm_ver, data_lock_info, mod_cache, not_st>>

(* error_rlock, lines 828-836: the READ lock is taken again and its result *)
(* is assigned to err_info, which is returned                              *)
StEnsureRelock(t) ==
    /\ thr[t].pc = "ensure_rlock"
    /\ sr_rwlock_granted(mod_cache.lock, "READ")
    /\ mod_cache' = [mod_cache EXCEPT !.lock = sr_rwlock_take(@, "READ", t)]
    /\ thr' = [thr EXCEPT ![t].err = "OK", ![t].pc = AfterEnsure(t, "OK")]
    /\ UNCHANGED <<ds_file, shm_ver, data_lock_info, not_st>>

StEnsureRelockExpire(t) ==
    /\ thr[t].pc = "ensure_rlock"
    /\ ~sr_rwlock_granted(mod_cache.lock, "READ")
    /\ thr' = [thr EXCEPT ![t].err = "ERR", ![t].pc = AfterEnsure(t, "ERR")]
    /\ UNCHANGED <<ds_file, shm_ver, data_lock_info, mod_cache, not_st>>

(* sr_modinfo_module_data_load after the cache update: the cached tree is  *)
(* used in place (data_cached) or the module data are copied under the     *)
(* cache READ lock                                                         *)
StDupData(t) ==
    /\ thr[t].pc = "dup_data"
    /\ thr[t].cached \/ sr_rwlock_granted(mod_cache.lock, "READ")
    /\ thr' = [thr EXCEPT ![t].got = mod_cache.data[thr[t].op.m], ![t].pc = "done"]
    /\ UNCHANGED <<ds_file, shm_ver, data_lock_info, mod_cache, not_st>>

StDupDataExpire(t) ==
    /\ thr[t].pc = "dup_data"
    /\ ~thr[t].cached /\ ~sr_rwlock_granted(mod_cache.lock, "READ")
    /\ thr' = [thr EXCEPT ![t].err = "ERR", ![t].pc = "done"]
    /\ UNCHANGED <<ds_file, shm_ver, data_lock_info, mod_cache, not_st>>

(* sr_modinfo_data_store, line 2134 in its condition of line 2132 *)
VerAfterStoreAnyDs(ver, ds) == ver + 1

VerAfterStore(ver, ds) == IF ds = "running" THEN ver + 1 ELSE ver

(* sr_modinfo_data_store up to the open() of sr_module_file_data_set: an   *)
(* operational store reads the stored diff first; O_TRUNC empties the      *)
(* file, O_CREAT is passed for candidate only                              *)
StStoreOpen(t, open_ok) ==
    /\ thr[t].pc = "store_open"
    /\ LET op == thr[t].op
           f == ds_file[op.m][op.ds]
       IN  \E r \in (IF op.ds = "operational"
                      THEN sr_module_file_data_append(op.m, "operational")
                      ELSE {[ok |-> TRUE, data |-> <<>>]}) :
              IF r.ok /\ open_ok /\ (f.img # "absent" \/ op.ds = "candidate")
              THEN /\ ds_file' = [ds_file EXCEPT ![op.m][op.ds] = Part]
                   /\ thr' = [thr EXCEPT ![t].pc = "store_print"]
              ELSE /\ thr' = [thr EXCEPT ![t].err = "ERR", ![t].pc = "done"]
                   /\ UNCHANGED ds_file
    /\ UNCHANGED <<shm_ver, data_lock_info, mod_cache, not_st>>

(* lyd_print_fd and close *)
StStorePrint(t, print_ok) ==
    /\ thr[t].pc = "store_print"
    /\ LET op == thr[t].op
       IN  IF print_ok
           THEN /\ ds_file' = [ds_file EXCEPT ![op.m][op.ds] = Whole(NewContent(op))]
                /\ thr' = [thr EXCEPT ![t].pc = IF op.ds = "operational" THEN "done"
                                                ELSE "store_written"]
           ELSE /\ thr' = [thr EXCEPT ![t].err = "ERR", ![t].pc = "done"]
                /\ UNCHANGED ds_file
    /\ UNCHANGED <<shm_ver, data_lock_info, mod_cache, not_st>>

(* lines 2132-2134: the version of running data is incremented *)
StStoreWritten(t) ==
    /\ thr[t].pc = "store_written"
    /\ LET op == thr[t].op
       IN  /\ shm_ver' = [shm_ver EXCEPT ![op.m] = VerAfterStore(@, op.ds)]
           /\ thr' = [thr EXCEPT ![t].pc =
                          IF op.ds # "running" THEN "done"
                          ELSE IF Caching(op.conn) THEN "store_update" ELSE "store_oper"]
    /\ UNCHANGED <<ds_file, data_lock_info, mod_cache, not_st>>

(* lines 2150-2171: the stored operational diff is read, its result        *)
(* assigned to err_info, and rewritten if there is one                     *)
StStoreOper(t, set_ok) ==
    /\ thr[t].pc = "store_oper"
    /\ LET op == thr[t].op
       IN  \E r \in sr_module_file_data_append(op.m, "operational") :
              IF ~r.ok
              THEN /\ thr' = [thr EXCEPT ![t].err = "ERR", ![t].pc = "done"]
                   /\ UNCHANGED ds_file
              ELSE IF r.data = <<0>>
              THEN /\ set_ok
                   /\ thr' = [thr EXCEPT ![t].err = "OK", ![t].pc = "done"]
                   /\ UNCHANGED ds_file
              ELSE /\ ds_file' = [ds_file EXCEPT ![op.m]["operational"] =
                                      IF set_ok THEN Whole(1) ELSE Part]
                   /\ thr' = [thr EXCEPT ![t].err = IF set_ok THEN "OK" ELSE "ERR",
                                          ![t].pc = "done"]
    /\ UNCHANGED <<shm_ver, data_lock_info, mod_cache, not_st>>

(* sr_shmmod_modinfo_unlock *)
StUnlock(t) ==
    /\ thr[t].pc = "done"
    /\ data_lock_info' = ModUnlock(t, thr[t].op)
    /\ thr' = [thr EXCEPT ![t].pc = "free", ![t].err = "OK", ![t].got = "none"]
    /\ UNCHANGED <<ds_file, shm_ver, mod_cache, not_st>>

(* sr_modinfo_free *)
StFree(t) ==
    /\ thr[t].pc = "free"
    /\ mod_cache' = IF thr[t].cached
                    THEN [mod_cache EXCEPT !.lock = sr_rwlock_drop(@, "READ")]
                    ELSE mod_cache
    /\ thr' = [thr EXCEPT ![t] = IdleThread]
    /\ UNCHANGED <<ds_file, shm_ver, data_lock_info, not_st>>

InitST == IdleMI /\ IdleLO /\ IdleRW /\ IdleST

NextST ==
    \/ \E t \in StThreads : \E op \in StoreOps(t) : StBegin(t, op)
    \/ \E t \in StThreads : StDataLoad(t)
    \/ \E t \in StThreads : StFileLoad(t)
    \/ \E t \in StThreads, open_ok \in BOOLEAN : StStoreOpen(t, open_ok)
    \/ \E t \in StThreads, print_ok \in BOOLEAN : StStorePrint(t, print_ok)
    \/ \E t \in StThreads : StStoreWritten(t)
    \/ \E t \in StThreads, set_ok \in BOOLEAN : StStoreOper(t, set_ok)
    \/ \E t \in StThreads : StUnlock(t)
    \/ \E t \in StThreads : StFree(t)

SpecStore == InitST /\ [][NextST]_vars

NextCache ==
    \/ \E t \in StThreads : \E op \in CacheOps(t) : StBegin(t, op)
    \/ \E t \in StThreads : StDataLoad(t)
    \/ \E t \in StThreads : StDataLoadExpire(t)
    \/ \E t \in StThreads : StEnsureSearch(t)
    \/ \E t \in StThreads : StEnsureWrite(t)
    \/ \E t \in StThreads : StEnsureWriteExpire(t)
    \/ \E t \in StThreads : StEnsureRelock(t)
    \/ \E t \in StThreads : StEnsureRelockExpire(t)
    \/ \E t \in StThreads : StDupData(t)
    \/ \E t \in StThreads : StDupDataExpire(t)
    \/ \E t \in StThreads, open_ok \in BOOLEAN : StStoreOpen(t, open_ok)
    \/ \E t \in StThreads, print_ok \in BOOLEAN : StStorePrint(t, print_ok)
    \/ \E t \in StThreads : StStoreWritten(t)
    \/ \E t \in StThreads, set_ok \in BOOLEAN : StStoreOper(t, set_ok)
    \/ \E t \in StThreads : StUnlock(t)
    \/ \E t \in StThreads : StFree(t)

SpecCache == InitST /\ [][NextCache]_vars

----------------------------------------------------------------------------
(* Operational data of a module: running data, the stored diff and the     *)
(* data of the providers subscribed to the module.  sr_shmsub_oper_notify  *)
(* is not among the sources; it follows its description: the reply of the  *)
(* provider, an error the provider returned (cb_error_info), or a timeout  *)
(* that fails the call with CALLBACK_FAILED.                               *)

(* Number of operational subscriptions of the module (oper_sub_count). *)
OperSubCount == 2

sr_shmsub_oper_notify(reply, i) ==
    CASE reply = "data" -> [err |-> "OK", cb |-> FALSE, data |-> <<10 + i>>]
      [] reply = "cb_error" -> [err |-> "OK", cb |-> TRUE, data |-> <<>>]
      [] OTHER -> [err |-> "CALLBACK_FAILED", cb |-> FALSE, data |-> <<>>]

(* sr_xpath_oper_data_get that loses the error of the request *)
OperNeverHalts(r) == FALSE

(* sr_xpath_oper_data_get, sr_xpath_oper_data_append and the loop of       *)
(* sr_module_oper_data_update: an err_info of the request ends the loop    *)
OperHalts(r) == r.err # "OK"

(* sr_modinfo_module_data_load of an operational modinfo without cache:    *)
(* the running file is read (conf_ds) and the stored diff is applied       *)
StOperLoad(t) ==
    /\ thr[t].pc = "module_load"
    /\ ~UsesCache(thr[t].op)
    /\ thr[t].op.ds = "operational"
    /\ \E r \in sr_module_file_data_append(thr[t].op.m, "running"),
          d \in sr_module_file_data_append(thr[t].op.m, "operational") :
          thr' = [thr EXCEPT ![t].err = IF r.ok /\ d.ok THEN "OK" ELSE "ERR",
                             ![t].got = IF r.ok THEN r.data ELSE "none",
                             ![t].i = 0,
                             ![t].pc = IF r.ok /\ d.ok THEN "oper_update" ELSE "done"]
    /\ UNCHANGED <<ds_file, shm_ver, data_lock_info, mod_cache, not_st>>

(* one pass of the subscription loop up to the request: the subscription   *)
(* is skipped (type, static prune, no parent) or its provider is asked;    *)
(* after the last one sr_modinfo_add_modules returns, with CALLBACK_FAILED *)
(* if a provider returned an error                                         *)
StOperNext(t, skip) ==
    /\ thr[t].pc = "oper_update"
    /\ IF thr[t].i = OperSubCount
       THEN /\ ~skip
            /\ thr' = [thr EXCEPT ![t].pc = "done",
                                  ![t].err = IF thr[t].cb THEN "CALLBACK_FAILED" ELSE "OK"]
       ELSE thr' = [thr EXCEPT ![t].i = @ + 1,
                               ![t].sent = IF skip THEN @ ELSE Append(@, thr[t].i + 1),
                               ![t].pc = IF skip THEN "oper_update" ELSE "oper_wait"]
    /\ UNCHANGED <<ds_file, shm_ver, data_lock_info, mod_cache, not_st>>

(* the request returns: data are merged, a provider error is kept in       *)
(* cb_error_info, an err_info leaves the loop and every caller up to       *)
(* sr_modinfo_add_modules                                                  *)
StOperReply(t, reply) ==
    /\ thr[t].pc = "oper_wait"
    /\ LET r == sr_shmsub_oper_notify(reply, thr[t].i)
       IN  thr' = [thr EXCEPT ![t].reply = reply,
                              ![t].cb = @ \/ r.cb,
                              ![t].got = @ \o r.data,
                              ![t].err = IF OperHalts(r) THEN r.err ELSE @,
                              ![t].pc = IF OperHalts(r) THEN "done" ELSE "oper_update"]
    /\ UNCHANGED <<ds_file, shm_ver, data_lock_info, mod_cache, not_st>>

NextOper ==
    \/ \E t \in {"r1", "r2"}, m \in StMods :
          StBegin(t, [kind |-> "read", conn |-> "B", ds |-> "operational", m |-> m,
                      cache |-> FALSE])
    \/ \E m \in StMods :
          StBegin("w", [kind |-> "write", conn |-> "B", ds |-> "running", m |-> m,
                       cache |-> FALSE])
    \/ \E t \in StThreads : StDataLoad(t)
    \/ \E t \in StThreads : StOperLoad(t)
    \/ \E t \in StThreads, skip \in BOOLEAN : StOperNext(t, skip)
    \/ \E t \in StThreads, reply \in {"data", "cb_error", "timeout"} : StOperReply(t, reply)
    \/ \E t \in StThreads, open_ok \in BOOLEAN : StStoreOpen(t, open_ok)
    \/ \E t \in StThreads, print_ok \in BOOLEAN : StStorePrint(t, print_ok)
    \/ \E t \in StThreads : StStoreWritten(t)
    \/ \E t \in StThreads, set_ok \in BOOLEAN : StStoreOper(t, set_ok)
    \/ \E t \in StThreads : StUnlock(t)
    \/ \E t \in StThreads : StFree(t)

SpecOper == InitST /\ [][NextOper]_vars

----------------------------------------------------------------------------
(* Connection recovery.  Every connection keeps its lock file flocked      *)
(* while it lives (shm.alive).  sr_shmmain_lock_remap and the recovery it  *)
(* runs are not among the sources and follow their description: a WRITE or *)
(* READ-UPGRADEABLE acquire of the SHM lock goes through the connection    *)
(* list and reclaims the state of every connection found dead.  Whether a  *)
(* connection counts as dead is decided by sr_connection_exists.           *)

(* Bound on the subscriptions of one connection. *)
MaxSubs == 2

(* sr_connection_exists: a failed check counts as alive *)
sr_connection_exists(cid, check_ok) == IF check_ok THEN shm.alive[cid] ELSE TRUE

(* sr_shmmain_lock_remap in WRITE or READ-UPGRADEABLE mode with the        *)
(* recovery; late remembers that the holder of the module lock was dead    *)
(* when the SHM lock was granted                                           *)
RcShmLock(c, check_ok) ==
    /\ shm.alive[c] /\ shm.pc[c] = "idle" /\ shm.lock = "none"
    /\ LET dead == {d \in shm.conns \ {c} : ~sr_connection_exists(d, check_ok)}
       IN  shm' = [shm EXCEPT
                     !.lock = c,
                     !.pc[c] = "locked",
                     !.late[c] = shm.mlock # "none" /\ ~shm.alive[shm.mlock],
                     !.conns = @ \ dead,
                     !.subs = [d \in Conns |-> IF d \in dead THEN 0 ELSE @[d]],
                     !.mlock = IF @ \in dead THEN "none" ELSE @]
    /\ UNCHANGED <<vars_mi, vars_lo, vars_rw, vars_st, px, ed, sch, pg, flt, vars_x>>

(* a subscription is added under the SHM lock *)
RcSubscribe(c) ==
    /\ shm.alive[c] /\ shm.pc[c] = "locked"
    /\ shm.subs[c] < MaxSubs
    /\ shm' = [shm EXCEPT !.subs[c] = @ + 1]
    /\ UNCHANGED <<vars_mi, vars_lo, vars_rw, vars_st, px, ed, sch, pg, flt, vars_x>>

(* the WRITE lock of module m is requested: granted, or timed out when     *)
(* another connection holds it                                             *)
RcModLock(c) ==
    /\ shm.alive[c] /\ shm.pc[c] = "locked" /\ shm.mlock # c
    /\ shm' = IF shm.mlock = "none"
              THEN [shm EXCEPT !.mlock = c]
              ELSE [shm EXCEPT !.pc[c] = "timed_out"]
    /\ UNCHANGED <<vars_mi, vars_lo, vars_rw, vars_st, px, ed, sch, pg, flt, vars_x>>

(* sr_shmmain_unlock at the end of the call, the module lock released or   *)
(* kept for a later call                                                   *)
RcShmUnlock(c, keep) ==
    /\ shm.alive[c] /\ shm.pc[c] \in {"locked", "timed_out"}
    /\ shm.mlock # c => ~keep
    /\ shm' = [shm EXCEPT !.lock = "none", !.pc[c] = "idle", !.late[c] = FALSE,
                          !.mlock = IF @ = c /\ ~keep THEN "none" ELSE @]
    /\ UNCHANGED <<vars_mi, vars_lo, vars_rw, vars_st, px, ed, sch, pg, flt, vars_x>>

(* the process of a connection ends between two calls: its lock file is no *)
(* longer flocked, its state stays in the SHM                              *)
RcCrash(c) ==
    /\ shm.alive[c] /\ shm.pc[c] = "idle"
    /\ shm' = [shm EXCEPT !.alive[c] = FALSE]
    /\ UNCHANGED <<vars_mi, vars_lo, vars_rw, vars_st, px, ed, sch, pg, flt, vars_x>>

NextRC ==
    \/ \E c \in Conns, check_ok \in BOOLEAN : RcShmLock(c, check_ok)
    \/ \E c \in Conns : RcSubscribe(c)
    \/ \E c \in Conns : RcModLock(c)
    \/ \E c \in Conns, keep \in BOOLEAN : RcShmUnlock(c, keep)
    \/ \E c \in Conns : RcCrash(c)

SpecRecover == InitST /\ [][NextRC]_vars

----------------------------------------------------------------------------
(* The static prune of the operational composer.  XPaths are C strings,    *)
(* here sequences of characters; reading the byte at the terminator gives  *)
(* "NUL".  The paths of the model are location paths of two steps at most: *)
(* a list of module "m" with the keys k and j, and a leaf of the list,     *)
(* which is a child step (/a) or a descendant step (//a).                  *)

(* ptr[0] for the pointer at position i of the string s *)
CharAt(s, i) == IF i >= 1 /\ i <= Len(s) THEN s[i] ELSE "NUL"

(* the paths: steps of a node name and the key predicates in their order *)
XpPaths ==
    LET keys == {<<>>, <<[k |-> "k", v |-> "x"]>>, <<[k |-> "k", v |-> "y"]>>,
                 <<[k |-> "k", v |-> "x"], [k |-> "j", v |-> "x"]>>,
                 <<[k |-> "k", v |-> "x"], [k |-> "j", v |-> "y"]>>}
    IN  {<<[name |-> "l", keys |-> ks, dslash |-> FALSE]>> : ks \in keys}
          \cup {<<[name |-> "l", keys |-> ks, dslash |-> FALSE],
                  [name |-> n, keys |-> <<>>, dslash |-> d]>> :
                   ks \in keys, n \in {"a", "b"}, d \in BOOLEAN}

(* the string of a path: /m:l[k='x'][j='y']/a or /m:l[k='x'][j='y']//a *)
XpString(path) ==
    LET RECURSIVE preds(_)
        preds(ks) ==
            IF ks = <<>> THEN <<>>
            ELSE <<"[", Head(ks).k, "=", "'", Head(ks).v, "'", "]">> \o preds(Tail(ks))
    IN  <<"/", "m", ":", path[1].name>> \o preds(path[1].keys)
          \o (IF Len(path) = 2
              THEN (IF path[2].dslash THEN <<"/", "/">> ELSE <<"/">>) \o <<path[2].name>>
              ELSE <<>>)

(* whether the request selects an instance of data under the subscription: *)
(* on every step they share before a descendant step of either, the node   *)
(* names are the same and no key is given two different values             *)
XpOverlap(r, s) ==
    \A i \in 1..(IF Len(r) < Len(s) THEN Len(r) ELSE Len(s)) :
       \/ \E j \in 1..i : r[j].dslash \/ s[j].dslash
       \/ /\ r[i].name = s[i].name
          /\ \A a \in 1..Len(r[i].keys), b \in 1..Len(s[i].keys) :
                r[i].keys[a].k = s[i].keys[b].k => r[i].keys[a].v = s[i].keys[b].v

(* sr_xpath_next_name for the pointer at position p; without the assert of *)
(* the debug build the first character is skipped whatever it is           *)
sr_xpath_next_name(s, p) ==
    LET dslash == CharAt(s, p + 1) = "/"
        x0 == IF dslash THEN p + 2 ELSE p + 1
        RECURSIVE scan(_, _, _, _)
        scan(x, ptr, mod, mlen) ==
            IF CharAt(s, ptr) \in {"NUL", "/"}
            THEN [name |-> x, len |-> ptr - x, mod |-> mod, mlen |-> mlen, has_pred |-> FALSE]
            ELSE LET colon == CharAt(s, ptr) = ":"
                     x2 == IF colon THEN ptr + 1 ELSE x
                     mod2 == IF colon THEN x ELSE mod
                     mlen2 == IF colon THEN ptr - x ELSE mlen
                 IN  IF CharAt(s, ptr + 1) = "["
                     THEN [name |-> x2, len |-> ptr + 1 - x2, mod |-> mod2, mlen |-> mlen2,
                           has_pred |-> TRUE]
                     ELSE scan(x2, ptr + 1, mod2, mlen2)
        r == scan(x0, x0, 0, 0)
    IN  [next |-> r.name + r.len, mod |-> r.mod, mlen |-> r.mlen, name |-> r.name,
         len |-> r.len, dslash |-> dslash, has_pred |-> r.has_pred]

(* sr_xpath_next_predicate for the pointer at the '[' at position p;       *)
(* has_predicate is (ptr[0] && (ptr[0] + 1 == '[')): the character code of *)
(* ptr[0] plus one is compared, so it is set for 'Z' only                  *)
sr_xpath_next_predicate(s, p) ==
    LET RECURSIVE scan(_, _)
        scan(ptr, quote) ==
            IF CharAt(s, ptr) = "NUL" \/ (quote = "NUL" /\ CharAt(s, ptr) = "]") THEN ptr
            ELSE IF quote # "NUL" /\ CharAt(s, ptr) = quote THEN scan(ptr + 1, "NUL")
            ELSE IF quote = "NUL" /\ CharAt(s, ptr) \in {"'", "\""}
                 THEN scan(ptr + 1, CharAt(s, ptr))
            ELSE scan(ptr + 1, quote)
        ptr == scan(p + 1, "NUL")
    IN  [next |-> ptr + 1, pred |-> p + 1, len |-> ptr - (p + 1),
         has_pred |-> CharAt(s, ptr) = "Z"]

(* sr_xpath_oper_data_predicate_required for the predicate of s1 at a1 of  *)
(* length l1 and the predicate of s2 at a2 of length l2                    *)
sr_xpath_oper_data_predicate_required(s1, a1, l1, s2, a2, l2) ==
    LET RECURSIVE names(_)
        \* the number of characters before the '=' of both, or -1
        names(k) ==
            IF k >= l1 \/ k >= l2 THEN -1
            ELSE IF CharAt(s1, a1 + k) # CharAt(s2, a2 + k) THEN -1
            ELSE IF CharAt(s1, a1 + k + 1) = "=" /\ CharAt(s2, a2 + k + 1) = "="
                 THEN (IF k + 1 >= l1 \/ k + 1 >= l2 THEN -1 ELSE k + 1)
            ELSE names(k + 1)
        n == names(0)
        q1 == CharAt(s1, a1 + n + 1)
        q2 == CharAt(s2, a2 + n + 1)
        v1 == a1 + n + 2
        v2 == a2 + n + 2
        RECURSIVE value(_, _, _, _)
        \* the length of the value up to its closing quote
        value(s, v, len, q) ==
            IF len = 0 \/ CharAt(s, v) = q THEN 0 ELSE 1 + value(s, v + 1, len - 1, q)
        n1 == value(s1, v1, l1 - (n + 2), q1)
        n2 == value(s2, v2, l2 - (n + 2), q2)
        max == IF n1 > n2 THEN n1 ELSE n2
    IN  IF n = -1 THEN 1
        ELSE IF q1 \notin {"'", "\""} \/ q2 \notin {"'", "\""} THEN 1
        ELSE IF l1 - (n + 2) - n1 # 1 \/ l2 - (n + 2) - n2 # 1 THEN 1
        ELSE IF \A j \in 0..(max - 1) : CharAt(s1, v1 + j) = CharAt(s2, v2 + j) THEN 1
        ELSE 0

(* sr_xpath_oper_data_required: 1 required, 0 not required; where the      *)
(* asserts are compiled in (ndebug is FALSE), sr_xpath_next_name called on *)
(* a pointer that is not at a '/' aborts the process: no value, here -1    *)
sr_xpath_oper_data_required(request_xpath, sub_xpath, ndebug) ==
    LET RECURSIVE preds(_, _, _, _)
        \* the loop over the predicate pairs: the positions after it, or 0
        preds(x1, hp1, x2, hp2) ==
            IF hp1 /\ hp2
            THEN LET p1 == sr_xpath_next_predicate(request_xpath, x1)
                     p2 == sr_xpath_next_predicate(sub_xpath, x2)
                 IN  IF sr_xpath_oper_data_predicate_required(request_xpath, p1.pred, p1.len,
                                                              sub_xpath, p2.pred, p2.len) = 0
                     THEN <<0, 0>>
                     ELSE preds(p1.next, p1.has_pred, p2.next, p2.has_pred)
            ELSE IF hp1
            THEN LET p1 == sr_xpath_next_predicate(request_xpath, x1)
                 IN  preds(p1.next, p1.has_pred, x2, hp2)
            ELSE IF hp2
            THEN LET p2 == sr_xpath_next_predicate(sub_xpath, x2)
                 IN  preds(x1, hp1, p2.next, p2.has_pred)
            ELSE <<x1, x2>>
        RECURSIVE steps(_, _)
        steps(x1, x2) ==
            LET n1 == sr_xpath_next_name(request_xpath, x1)
                n2 == sr_xpath_next_name(sub_xpath, x2)
                dot1 == n1.len = 1 /\ CharAt(request_xpath, n1.name) = "."
                dot2 == n2.len = 1 /\ CharAt(sub_xpath, n2.name) = "."
                wildc1 == n1.len = 1 /\ CharAt(request_xpath, n1.name) = "*"
                wildc2 == n2.len = 1 /\ CharAt(sub_xpath, n2.name) = "*"
                same(a, b, len) ==
                    \A j \in 0..(len - 1) : CharAt(request_xpath, a + j) = CharAt(sub_xpath, b + j)
                after == preds(n1.next, n1.has_pred, n2.next, n2.has_pred)
            IN  IF ~ndebug /\ (CharAt(request_xpath, x1) # "/" \/ CharAt(sub_xpath, x2) # "/")
                THEN -1
                ELSE IF n1.dslash # n2.dslash THEN 1
                ELSE IF n1.dslash /\ n2.dslash /\ (dot1 \/ dot2) THEN 1
                ELSE IF n1.mlen > 0 /\ n2.mlen > 0
                        /\ (n1.mlen # n2.mlen \/ ~same(n1.mod, n2.mod, n1.mlen)) THEN 0
                ELSE IF ~wildc1 /\ ~wildc2
                        /\ (n1.len # n2.len \/ ~same(n1.name, n2.name, n1.len)) THEN 0
                ELSE IF after = <<0, 0>> THEN 0
                ELSE IF CharAt(request_xpath, after[1]) # "NUL"
                        /\ CharAt(sub_xpath, after[2]) # "NUL"
                     THEN steps(after[1], after[2])
                ELSE 1
    IN  steps(1, 1)

(* sr_module_oper_data_update reaches a subscription with a request: the   *)
(* prune decides whether the provider is asked                             *)
PxCall(r, s, ndebug) ==
    /\ px.pc = "idle"
    /\ px' = [pc |-> "decided", req |-> r, sub |-> s,
              ret |-> sr_xpath_oper_data_required(XpString(r), XpString(s), ndebug)]
    /\ UNCHANGED <<vars_mi, vars_lo, vars_rw, vars_st, shm, ed, sch, pg, flt, vars_x>>

(* the composer goes on to the next subscription *)
PxNext ==
    /\ px.pc = "decided" /\ px.ret # -1
    /\ px' = [pc |-> "idle", req |-> <<>>, sub |-> <<>>, ret |-> 1]
    /\ UNCHANGED <<vars_mi, vars_lo, vars_rw, vars_st, shm, ed, sch, pg, flt, vars_x>>

NextPrune ==
    \/ \E r \in XpPaths, s \in XpPaths, ndebug \in BOOLEAN : PxCall(r, s, ndebug)
    \/ PxNext

SpecPrune == InitST /\ [][NextPrune]_vars

----------------------------------------------------------------------------
(* Edits.  One operation on running data: edits are applied to its         *)
(* modinfo, the data is validated and, when the validation succeeded, the  *)
(* changed modules are stored; the operation ends with sr_modinfo_free.    *)
(* invalid remembers which selected modules the validation was given as    *)
(* invalid.  An edit is a list of top-level nodes, each owned by a module  *)
(* and setting the value of that module's data.  sr_edit_mod_apply is not  *)
(* among the sources: it applies the nodes of one module to the data tree, *)
(* records the change in the diff when one is asked for, and may fail.     *)

SR_YANG_MOD == "sysrepo"

(* Bound on the edits applied to one modinfo. *)
MaxEdits == 2

(* the edits of the model: up to three top-level nodes *)
Edits ==
    LET nodes == {[mod |-> "a", val |-> 1], [mod |-> "a", val |-> 2],
                  [mod |-> "b", val |-> 1], [mod |-> SR_YANG_MOD, val |-> 1]}
    IN  UNION {[1..n -> nodes] : n \in 1..3}

(* the loop of sr_modinfo_edit_apply over a first node only *)
EditHeadInternal(edit) == edit[1].mod = SR_YANG_MOD

(* LY_LIST_FOR(edit, node): some top-level node is owned by SR_YANG_MOD *)
EditInternal(edit) == \E i \in 1..Len(edit) : edit[i].mod = SR_YANG_MOD

(* sr_modinfo_next_mod: the modinfo entries of the edit in the order of    *)
(* their first node, each entry once                                       *)
RECURSIVE sr_modinfo_next_mod(_, _, _)
sr_modinfo_next_mod(ms, edit, aux) ==
    IF edit = <<>> THEN <<>>
    ELSE LET found == {i \in 1..Len(ms) : ms[i].ly_mod = Head(edit).mod}
         IN  IF found = {} \/ found \subseteq aux
             THEN sr_modinfo_next_mod(ms, Tail(edit), aux)
             ELSE LET i == CHOOSE j \in found : TRUE
                  IN  <<i>> \o sr_modinfo_next_mod(ms, Tail(edit), aux \cup {i})

(* sr_edit_mod_apply for the module m: the value the data of m ends with *)
sr_edit_mod_apply(edit, m, old) ==
    LET idx == {i \in 1..Len(edit) : edit[i].mod = m}
    IN  IF idx = {} THEN old
        ELSE edit[CHOOSE i \in idx : \A j \in idx : j <= i].val

(* sr_modinfo_edit_apply(mod_info, edit, create_diff), the whole call;     *)
(* fail_at is the position in the loop at which sr_edit_mod_apply fails    *)
(* (0: never)                                                              *)
sr_modinfo_edit_apply(edit, create_diff, fail_at) ==
    LET order == sr_modinfo_next_mod(ed.mods, edit, {})
        RECURSIVE loop(_, _)
        loop(e, k) ==
            IF k > Len(order) THEN [e EXCEPT !.ret = "OK"]
            ELSE IF k = fail_at THEN [e EXCEPT !.ret = "NOT_FOUND"]
            ELSE LET i == order[k]
                     m == e.mods[i].ly_mod
                     new == sr_edit_mod_apply(edit, m, e.data[m])
                     change == new # e.data[m]
                 IN  loop([e EXCEPT !.data[m] = new,
                                    !.diff[m] = IF create_diff /\ change THEN <<new>> ELSE @,
                                    !.mods[i].state = IF change /\ ~HasBit(@, MOD_INFO_CHANGED)
                                                      THEN @ + MOD_INFO_CHANGED ELSE @],
                          k + 1)
        called == [ed EXCEPT !.pc = "applied", !.edit = edit, !.calls = @ + 1]
    IN  /\ ed.pc \in {"idle", "applied", "validated"}
        /\ ed.ret \in {"none", "OK"}
        /\ ed.calls < MaxEdits
        /\ ed' = IF EditInternal(edit)
                 THEN [called EXCEPT !.ret = "UNSUPPORTED"]
                 ELSE loop(called, 1)
        /\ UNCHANGED <<vars_mi, vars_lo, vars_rw, vars_st, shm, px, sch, pg, flt, vars_x>>

(* a validation that lets every module pass *)
ValidationNeverFails(outcome) == FALSE

(* lyd_validate_module reports the data of a module as invalid *)
ValidationFails(outcome) == outcome = "invalid"

(* sr_modinfo_validate(mod_info, mod_state, finish_diff), the whole call.  *)
(* mod_state: the state bits that select a module; out: what               *)
(* lyd_validate_module does for every entry: "valid", "changed" (it adds   *)
(* default nodes to the data) or "invalid".                                *)
sr_modinfo_validate(mod_state, finish_diff, out) ==
    LET selected(e, i) == \E bit \in mod_state : HasBit(e.mods[i].state, bit)
        RECURSIVE loop(_, _)
        loop(e, i) ==
            IF i > Len(e.mods) THEN [e EXCEPT !.ret = "OK"]
            ELSE IF ~selected(e, i) THEN loop(e, i + 1)
            ELSE IF ValidationFails(out[i]) THEN [e EXCEPT !.ret = "VALIDATION_FAILED"]
            ELSE IF out[i] = "changed"
            THEN LET m == e.mods[i].ly_mod
                     d == [e EXCEPT !.data[m] = 3]
                 IN  loop(IF finish_diff
                          THEN [d EXCEPT !.diff[m] = <<3>>,
                                         !.mods[i].state = IF ~HasBit(@, MOD_INFO_CHANGED)
                                                           THEN @ + MOD_INFO_CHANGED ELSE @]
                          ELSE d,
                          i + 1)
            ELSE loop(e, i + 1)
    IN  /\ ed.pc = "applied" /\ ed.ret = "OK"
        /\ ed' = loop([ed EXCEPT !.pc = "validated",
                                 !.invalid = {ed.mods[i].ly_mod : i \in
                                                {j \in 1..Len(ed.mods) :
                                                    selected(ed, j) /\ out[j] = "invalid"}}],
                      1)
        /\ UNCHANGED <<vars_mi, vars_lo, vars_rw, vars_st, shm, px, sch, pg, flt, vars_x>>

(* sr_modinfo_data_store(mod_info) for running data after a successful     *)
(* validation, the whole call: the file of every CHANGED module is written *)
(* and its ver incremented.  fail.at is the entry at which a step fails    *)
(* (0: none) and fail.step the step: "set_open" and "set_print", the open  *)
(* and the print of sr_module_file_data_set for the running file (a failed *)
(* print leaves the file truncated, -1), or "oper_update", the update of   *)
(* the stored operational diff that follows the write and the ++ver        *)
(* (sr_module_file_data_append, lyd_new_implicit_module or                 *)
(* sr_diff_mod_update fails).                                              *)
sr_modinfo_data_store(fail) ==
    LET RECURSIVE loop(_, _)
        loop(e, i) ==
            IF i > Len(e.mods) THEN [e EXCEPT !.ret = "OK"]
            ELSE IF ~HasBit(e.mods[i].state, MOD_INFO_CHANGED) THEN loop(e, i + 1)
            ELSE LET m == e.mods[i].ly_mod
                     written == [e EXCEPT !.file[m] = e.data[m], !.ver[m] = @ + 1]
                 IN  IF i = fail.at /\ fail.step = "set_open" THEN [e EXCEPT !.ret = "SYS"]
                     ELSE IF i = fail.at /\ fail.step = "set_print"
                     THEN [e EXCEPT !.ret = "INTERNAL", !.file[m] = -1]
                     ELSE IF i = fail.at /\ fail.step = "oper_update"
                     THEN [written EXCEPT !.ret = "INTERNAL"]
                     ELSE loop(written, i + 1)
    IN  /\ ed.pc = "validated" /\ ed.ret = "OK"
        /\ \A m \in DOMAIN ed.ver : ed.ver[m] < MaxVer
        /\ ed' = loop([ed EXCEPT !.pc = "stored", !.fail = fail], 1)
        /\ UNCHANGED <<vars_mi, vars_lo, vars_rw, vars_st, shm, px, sch, pg, flt, vars_x>>

(* the operation ends and its modinfo is freed; the files and the ver of   *)
(* the modules stay                                                        *)
EdFree ==
    /\ ed.pc \in {"applied", "validated", "stored"}
    /\ ed' = [IdleEd EXCEPT !.pc = "freed", !.file = ed.file, !.ver = ed.ver]
    /\ UNCHANGED <<vars_mi, vars_lo, vars_rw, vars_st, shm, px, sch, pg, flt, vars_x>>

(* the inputs of a call that differ in their effect: an edit with a node   *)
(* of the internal module is rejected before create_diff is looked at, and *)
(* sr_edit_mod_apply can only fail at a position the loop reaches          *)
EditInputs ==
    {in \in [edit : Edits, create_diff : BOOLEAN, fail_at : 0..2] :
        /\ (\E i \in 1..Len(in.edit) : in.edit[i].mod = SR_YANG_MOD)
              => in.create_diff /\ in.fail_at = 0
        /\ in.fail_at <= Cardinality({in.edit[i].mod : i \in 1..Len(in.edit)})}

NextEdit ==
    \/ \E in \in EditInputs : sr_modinfo_edit_apply(in.edit, in.create_diff, in.fail_at)
    \/ \E mod_state \in {{MOD_INFO_CHANGED}, {MOD_INFO_CHANGED, MOD_INFO_INV_DEP}},
          finish_diff \in BOOLEAN, out \in [1..Len(EdMods) -> {"valid", "changed", "invalid"}] :
          sr_modinfo_validate(mod_state, finish_diff, out)
    \/ \E fail \in {[at |-> 0, step |-> "none"]}
                    \cup [at : 1..Len(EdMods), step : {"set_open", "set_print", "oper_update"}] :
          sr_modinfo_data_store(fail)
    \/ EdFree

SpecEdit == InitST /\ [][NextEdit]_vars

----------------------------------------------------------------------------
(* Scheduled removal of modules.  sr_remove_module, sr_connect and         *)
(* sr_disconnect are not among the sources; the tests of the module        *)
(* scheduling are, and the actions follow what these tests do and assert:  *)
(* a removal is scheduled by sr_remove_module and applied, if it can be,   *)
(* by the sr_connect that finds no other connection.                       *)

(* Bound on the connections that exist at a time. *)
MaxConns == 2

(* a sr_remove_module that accepts every request *)
RemoveAlwaysOK(state) == "OK"

(* the result of sr_remove_module for a module in the given state *)
RemoveResult(state) ==
    CASE state = "installed" -> "OK"
      [] state = "removing"  -> "EXISTS"
      [] state = "removed"   -> "NOT_FOUND"

(* sr_remove_module(conn, m) *)
SrRemoveModule(m) ==
    /\ sch.conns >= 1
    /\ sch' = [sch EXCEPT !.last = [m |-> m, ret |-> RemoveResult(sch.state[m])],
                          !.state[m] = IF @ = "installed" THEN "removing" ELSE @]
    /\ UNCHANGED <<vars_mi, vars_lo, vars_rw, vars_st, shm, px, ed, pg, flt, vars_x>>

(* sr_connect: the first connection applies the scheduled changes; the     *)
(* removal of the modules in blocked cannot be applied and stays scheduled *)
SrConnect(blocked) ==
    /\ sch.conns < MaxConns
    /\ sch' = [sch EXCEPT !.conns = @ + 1,
                          !.last = [m |-> "none", ret |-> "none"],
                          !.state = [m \in DOMAIN @ |->
                                       IF sch.conns = 0 /\ @[m] = "removing" /\ m \notin blocked
                                       THEN "removed" ELSE @[m]]]
    /\ UNCHANGED <<vars_mi, vars_lo, vars_rw, vars_st, shm, px, ed, pg, flt, vars_x>>

(* sr_disconnect *)
SrDisconnect ==
    /\ sch.conns >= 1
    /\ sch' = [sch EXCEPT !.conns = @ - 1, !.last = [m |-> "none", ret |-> "none"]]
    /\ UNCHANGED <<vars_mi, vars_lo, vars_rw, vars_st, shm, px, ed, pg, flt, vars_x>>

NextSched ==
    \/ \E m \in DOMAIN sch.state : SrRemoveModule(m)
    \/ \E blocked \in SUBSET (DOMAIN sch.state) : SrConnect(blocked)
    \/ SrDisconnect

SpecSched == InitST /\ [][NextSched]_vars

----------------------------------------------------------------------------
(* The permission gate on its own.  A modinfo before the gate holds its    *)
(* modules in the order they were added, every module once; an entry is    *)
(* DEP, INV_DEP or REQ, and validation may have set CHANGED on an entry    *)
(* that is not REQ.                                                        *)
GateStates == {MOD_INFO_DEP, MOD_INFO_INV_DEP, MOD_INFO_REQ,
               MOD_INFO_INV_DEP + MOD_INFO_CHANGED}

GateModinfos ==
    UNION {{ms \in [1..n -> [shm_mod : Modules, state : GateStates]] :
               \A i \in 1..n, j \in 1..n : i # j => ms[i].shm_mod # ms[j].shm_mod} :
           n \in 0..3}

(* sr_modinfo_perm_check(mod_info, wr, strict), the whole call *)
PgCheck(ms, strict, eaccess) ==
    /\ pg.pc = "idle"
    /\ pg' = [pc |-> "checked", mods |-> ms, strict |-> strict, eaccess |-> eaccess,
              out |-> sr_modinfo_perm_check(ms, strict, eaccess)]
    /\ UNCHANGED <<vars_mi, vars_lo, vars_rw, vars_st, shm, px, ed, sch, flt, vars_x>>

(* the caller goes on with the result or fails; the next call is made on   *)
(* another modinfo                                                         *)
PgNext ==
    /\ pg.pc = "checked"
    /\ pg' = IdlePg
    /\ UNCHANGED <<vars_mi, vars_lo, vars_rw, vars_st, shm, px, ed, sch, flt, vars_x>>

NextGate ==
    \/ /\ pg.pc = "idle"
       /\ \E ms \in GateModinfos, strict \in BOOLEAN,
             eaccess \in [Modules -> {"OK", "EACCES", "ERR"}] : PgCheck(ms, strict, eaccess)
    \/ PgNext

SpecGate == InitST /\ [][NextGate]_vars

----------------------------------------------------------------------------
(* One modinfo of a read operation and the tree of the running cache.      *)
(* flt.data is "none" (NULL), "cache" (mod_info->data points to the tree   *)
(* of conn->mod_cache) or "copy" (a tree the modinfo owns); flt.rlock      *)
(* tells that the modinfo holds the cache READ lock; flt.shared_changed    *)
(* records that the tree of the cache was changed or freed through the     *)
(* modinfo.  The session of the operation works on the datastore of the    *)
(* modinfo; flt.session holds its event and tells whether it holds an edit *)
(* and a diff for that datastore.                                          *)
Sessions == [ev : {"SR_SUB_EV_CHANGE", "SR_SUB_EV_UPDATE", "SR_SUB_EV_NONE", "SR_SUB_EV_DONE"},
             edit : BOOLEAN, diff : BOOLEAN]

(* sr_modinfo_data_load(mod_info, cache, ...) on the new modinfo of an     *)
(* operation of session on datastore ds; conn_cache:                       *)
(* SR_CONN_CACHE_RUNNING; outcome: the cache READ lock times out, the load *)
(* of a module fails, or all data are loaded                               *)
FltDataLoad(session, ds, cache, conn_cache, outcome) ==
    LET can == cache /\ conn_cache /\ ds = "running"
    IN  /\ flt.pc = "idle"
        /\ outcome = "lock_timeout" => can
        /\ flt' = IF outcome = "lock_timeout"
                  THEN [flt EXCEPT !.pc = "loaded", !.ds = ds, !.session = session,
                                   !.ret = "TIME_OUT"]
                  ELSE [flt EXCEPT !.pc = "loaded", !.ds = ds, !.session = session,
                                   !.data_cached = can, !.rlock = can,
                                   !.data = IF outcome = "load_fail" THEN "none"
                                            ELSE IF can THEN "cache" ELSE "copy",
                                   !.ret = IF outcome = "load_fail" THEN "SYS" ELSE "OK"]
        /\ UNCHANGED <<vars_mi, vars_lo, vars_rw, vars_st, shm, px, ed, sch, pg, vars_x>>

(* the result of lyd_dup_siblings(mod_info->data, ..., &mod_info->data),   *)
(* whose return value is not looked at: the copy, or on a failure the      *)
(* pointer as it was or NULL                                               *)
DupResult(data, dup) ==
    IF data = "none" THEN "none"
    ELSE CASE dup = "ok" -> "copy"
           [] dup = "fail_kept" -> data
           [] dup = "fail_null" -> "none"

(* sr_modinfo_get_filter(mod_info, xpath, session, result) for a modinfo   *)
(* with a REQ module                                                       *)
sr_modinfo_get_filter(dup) ==
    LET ev == flt.session.ev
        diff == ev \in {"SR_SUB_EV_CHANGE", "SR_SUB_EV_UPDATE"} /\ flt.session.diff
        edit == ev \in {"SR_SUB_EV_UPDATE", "SR_SUB_EV_NONE"} /\ flt.session.edit
        unshare == flt.data_cached /\ flt.ds = "running" /\ (edit \/ diff)
        data1 == IF unshare THEN DupResult(flt.data, dup) ELSE flt.data
    IN  /\ flt.pc = "loaded" /\ flt.ret = "OK"
        /\ dup # "ok" => unshare /\ flt.data # "none"
        /\ flt' = [flt EXCEPT
                      !.pc = "filtered",
                      !.data_cached = @ /\ ~unshare,
                      !.rlock = @ /\ ~unshare,
                      !.applied = edit \/ diff,
                      !.data = IF (edit \/ diff) /\ data1 = "none" THEN "copy" ELSE data1,
                      !.shared_changed = (edit \/ diff) /\ data1 = "cache"]
        /\ UNCHANGED <<vars_mi, vars_lo, vars_rw, vars_st, shm, px, ed, sch, pg, vars_x>>

(* sr_modinfo_free: a cached modinfo gives the READ lock back, any other   *)
(* one frees its data                                                      *)
FltFree ==
    /\ flt.pc \in {"loaded", "filtered"}
    /\ flt' = [flt EXCEPT
                  !.pc = "freed",
                  !.data_cached = FALSE,
                  !.rlock = IF flt.data_cached THEN FALSE ELSE @,
                  !.data = "none",
                  !.shared_changed = @ \/ (~flt.data_cached /\ flt.data = "cache")]
    /\ UNCHANGED <<vars_mi, vars_lo, vars_rw, vars_st, shm, px, ed, sch, pg, vars_x>>

(* the next operation starts with a new modinfo *)
FltNext ==
    /\ flt.pc = "freed"
    /\ flt' = IdleFlt
    /\ UNCHANGED <<vars_mi, vars_lo, vars_rw, vars_st, shm, px, ed, sch, pg, vars_x>>

NextFilter ==
    \/ \E session \in Sessions, ds \in DS, cache \in BOOLEAN, conn_cache \in BOOLEAN,
          outcome \in {"ok", "lock_timeout", "load_fail"} :
            FltDataLoad(session, ds, cache, conn_cache, outcome)
    \/ \E dup \in {"ok", "fail_kept", "fail_null"} : sr_modinfo_get_filter(dup)
    \/ FltFree
    \/ FltNext

SpecFilter == InitST /\ [][NextFilter]_vars

(* a thread that holds the module lock of its operation and has completed  *)
(* a load through the cache                                                *)
LoadedThroughCache(t) ==
    /\ thr[t].pc = "done" /\ thr[t].err = "OK"
    /\ thr[t].op.kind = "read" /\ UsesCache(thr[t].op)

(* C3: ver changes only by +1, in the step of a store to running that      *)
(* follows its completed file write; no other step changes it.             *)
C3_VerBump ==
    [][\A m \in StMods :
          shm_ver'[m] # shm_ver[m] =>
              /\ shm_ver'[m] = shm_ver[m] + 1
              /\ ds_file[m]["running"] = Whole(shm_ver'[m])
              /\ \E t \in StThreads :
                    /\ thr[t].pc = "store_written" /\ thr'[t].pc # "store_written"
                    /\ thr[t].op.m = m /\ thr[t].op.ds = "running"]_vars

(* a store to running has written its file and incremented ver *)
C3_Witness ==
    \E t \in StThreads :
        /\ thr[t].pc \in {"store_update", "store_oper"}
        /\ thr[t].op.ds = "running"
        /\ shm_ver[thr[t].op.m] = 2
        /\ ds_file[thr[t].op.m]["running"] = Whole(2)

(* C4: once a store to running of M has completed (ver is above its        *)
(* initial value), a load of M through the cache that returns success      *)
(* under the module lock yields the data of the current version of M and   *)
(* no older data.                                                          *)
C4_CacheCoherent ==
    \A t \in StThreads :
        (LoadedThroughCache(t) /\ shm_ver[thr[t].op.m] > 1) =>
            /\ thr[t].got # <<>>
            /\ \A k \in 1..Len(thr[t].got) : thr[t].got[k] = shm_ver[thr[t].op.m]

(* C5: no cache entry holds a version above the ver of its module. *)
C5_CacheVerNotAhead ==
    \A i \in 1..Len(mod_cache.mods) :
        mod_cache.mods[i].ly_mod \in StMods =>
            mod_cache.mods[i].ver <= shm_ver[mod_cache.mods[i].ly_mod]

(* C6: no completed load holds a tree parsed from a file that a store was  *)
(* writing at that time.                                                   *)
C6_NoTornRead ==
    \A t \in StThreads :
        (thr[t].pc = "done" /\ thr[t].op.kind = "read" /\ thr[t].got # "none") =>
            \A k \in 1..Len(thr[t].got) : thr[t].got[k] # -1

(* C7: every datastore file holds a complete image at every instant. *)
C7_FileAlwaysWhole ==
    \A m \in StMods, d \in DS : ds_file[m][d].img # "part"

(* C13: a thread whose request to a provider is in flight holds no module  *)
(* lock and no cache lock: it is not the writer of a lock of its module,   *)
(* and the readers of these locks are other threads.                       *)
C13_NoLockInFlight ==
    \A t \in StThreads :
        thr[t].pc = "oper_wait" =>
            /\ ~thr[t].cached
            /\ \A l \in ModLocksOf(thr[t].op) :
                  LET lock == data_lock_info[thr[t].op.m][l[1]]
                      others == {u \in StThreads \ {t} :
                                    /\ thr[u].pc \notin {"idle", "free"}
                                    /\ thr[u].op.m = thr[t].op.m
                                    /\ <<l[1], "READ">> \in ModLocksOf(thr[u].op)}
                  IN  lock.writer # t /\ lock.readers <= Cardinality(others)

C14_DeadSubsRemovedFirst ==
    [][(\E c \in Conns : shm'.subs[c] > shm.subs[c])
          => \A d \in Conns : ~shm.alive[d] => shm.subs[d] = 0]_vars

(* C15: a connection granted the SHM lock in WRITE or READ-UPGRADEABLE     *)
(* mode while the holder of the module lock was dead finds the module lock *)
(* released and does not time out on it.                                   *)
C15_DeadLockReleased ==
    \A c \in Conns :
        shm.late[c] =>
            /\ shm.pc[c] # "timed_out"
            /\ shm.mlock \in {"none", c}

(* C16: when the static prune reports the subscription as not required,    *)
(* the request selects no instance of data under the subscription          *)
C16_PruneSafe ==
    px.pc = "decided" /\ px.ret = 0 => ~XpOverlap(px.req, px.sub)

(* C17: a sr_modinfo_add_modules call with the strict permission check     *)
(* that adds a module as REQ, or raises an entry to REQ, for which the     *)
(* caller is denied the requested access, does not return OK               *)
C17_StrictDenies ==
    [][\A mod_set \in SeedSets, kind \in Kinds, outcome \in Outcomes,
          gate_in \in {g \in GateInputs : g.perm = "CHECK" /\ g.strict} :
          ( /\ AddModules(mod_set, kind, gate_in, outcome)
            /\ \E i \in 1..Len(mods') :
                  /\ HasBit(mods'[i].state, MOD_INFO_REQ)
                  /\ mods'[i].shm_mod \in gate_in.denied
                  /\ ~\E j \in 1..Len(mods) : /\ mods[j].shm_mod = mods'[i].shm_mod
                                              /\ HasBit(mods[j].state, MOD_INFO_REQ) )
          => mi_ret' # "OK"]_vars

(* C18: a sr_modinfo_edit_apply call with an edit that has a top-level     *)
(* node of the internal module, at whatever position, returns UNSUPPORTED  *)
(* and leaves the data, the diff and the state of every module as they     *)
(* were before the call                                                    *)
C18_InternalRejected ==
    [][(ed'.pc = "applied" /\ \E i \in 1..Len(ed'.edit) : ed'.edit[i].mod = SR_YANG_MOD) =>
          /\ ed'.ret = "UNSUPPORTED"
          /\ ed'.data = ed.data
          /\ ed'.diff = ed.diff
          /\ ed'.mods = ed.mods]_vars

(* an edit whose last node, after nodes of other modules that would change *)
(* the data, is of the internal module was rejected on a modinfo that an   *)
(* earlier edit has changed                                                *)
C18_Witness ==
    /\ ed.pc = "applied" /\ ed.ret = "UNSUPPORTED" /\ ed.calls = 2
    /\ Len(ed.edit) = 3 /\ ed.edit[3].mod = SR_YANG_MOD
    /\ ed.edit[1].mod = "a" /\ ed.edit[1].val # ed.data["a"]
    /\ ed.edit[2].mod = "b" /\ ed.data["b"] = 0
    /\ HasBit(ed.mods[1].state, MOD_INFO_CHANGED) /\ ed.diff["a"] # <<>>

(* C19: when the validation of a module selected for validation fails, a   *)
(* module in state INV_DEP|CHANGED included, the operation ends with       *)
(* VALIDATION_FAILED, no datastore file is modified and no ver changes     *)
C19_ValidationRollsBack ==
    ed.invalid # {} =>
        /\ ed.ret = "VALIDATION_FAILED"
        /\ ed.pc = "validated"
        /\ ed.file = IdleEd.file
        /\ ed.ver = IdleEd.ver

(* the validation failed on the module c in state INV_DEP|CHANGED, after   *)
(* two edits that changed the data of the module a                         *)
C19_Witness ==
    /\ ed.invalid = {"c"} /\ ed.ret = "VALIDATION_FAILED" /\ ed.calls = 2
    /\ ed.mods[3].ly_mod = "c"
    /\ HasBit(ed.mods[3].state, MOD_INFO_INV_DEP) /\ HasBit(ed.mods[3].state, MOD_INFO_CHANGED)
    /\ HasBit(ed.mods[1].state, MOD_INFO_CHANGED) /\ ed.data["a"] # ed.file["a"]

(* C21: a store ends with some CHANGED modules persisted and others not    *)
(* only when persisting a module failed, and then exactly the CHANGED      *)
(* modules before the failing one are written with their ver bumped; any   *)
(* other failure leaves all or none of the CHANGED modules persisted       *)
C21_PartialOnlyOnPersistFailure ==
    LET changed == {i \in 1..Len(ed.mods) : HasBit(ed.mods[i].state, MOD_INFO_CHANGED)}
        written == {i \in changed : ed.ver[ed.mods[i].ly_mod] = IdleEd.ver[ed.mods[i].ly_mod] + 1}
    IN  ed.pc = "stored" /\ written # {} /\ written # changed =>
            /\ ed.fail.step \in {"set_open", "set_print"}
            /\ written = {i \in changed : i < ed.fail.at}

C24_EnsureRestoresLock ==
    /\ \A t \in StThreads : mod_cache.lock.writer # t
    /\ mod_cache.lock.readers =
          Cardinality({t \in StThreads :
                          thr[t].cached /\ thr[t].pc \notin {"ensure_wlock", "ensure_rlock"}})

(* C25: a call of sr_modinfo_add_modules leaves at most one entry for      *)
(* every module that was in the modinfo, never weakens its kind and keeps  *)
(* its DATA and CHANGED bits                                               *)
C25_AddKeepsEntry ==
    [][mi_calls' = mi_calls + 1 =>
          \A i \in 1..Len(mods) :
              LET J == {j \in 1..Len(mods') : mods'[j].shm_mod = mods[i].shm_mod}
              IN  /\ Cardinality(J) <= 1
                  /\ \A j \in J :
                        /\ TypeOf(mods'[j].state) >= TypeOf(mods[i].state)
                        /\ HasBit(mods[i].state, MOD_INFO_DATA)
                              => HasBit(mods'[j].state, MOD_INFO_DATA)
                        /\ HasBit(mods[i].state, MOD_INFO_CHANGED)
                              => HasBit(mods'[j].state, MOD_INFO_CHANGED)]_vars

(* C26: a call with DEP among mod_deps on a modinfo that is closed under   *)
(* data dependencies leaves it closed after the loop of sr_modinfo_add_mod *)
(* calls: every non-INSTID data dependency of a REQ or INV_DEP entry is in *)
(* the modinfo; and every module the loop added is a module of the set, a  *)
(* non-INSTID data dependency of a REQ or INV_DEP entry, or an inverse     *)
(* dependency of a REQ entry                                               *)
C26_DepClosure ==
    LET In(ms, m) == \E i \in 1..Len(ms) : ms[i].shm_mod = m
        Targets(ms, least) ==
            UNION {{data_deps[ms[i].shm_mod][k].module :
                       k \in {y \in 1..Len(data_deps[ms[i].shm_mod]) :
                                 data_deps[ms[i].shm_mod][y].type # "INSTID"}} :
                   i \in {x \in 1..Len(ms) : TypeOf(ms[x].state) >= least}}
        InvTargets(ms) ==
            {n \in Modules : \E i \in 1..Len(ms) :
                /\ TypeOf(ms[i].state) >= MOD_INFO_REQ
                /\ \E k \in 1..Len(inv_data_deps(ms[i].shm_mod)) :
                      inv_data_deps(ms[i].shm_mod)[k] = n}
        DepClosed(ms) == \A n \in Targets(ms, MOD_INFO_INV_DEP) : In(ms, n)
    IN  (mi_ret \in {"none", "OK"} /\ mi_calls < MaxCalls /\ DepClosed(mods)) =>
           \A mod_set \in SeedSets \ {<<>>}, kind \in {k \in Kinds : "DEP" \in k.mod_deps} :
              LET mod_type == IF kind.as_deps THEN MOD_INFO_DEP ELSE MOD_INFO_REQ
                  added == AddSeeds(mods, mod_set, mod_type, kind.mod_deps)
              IN  /\ DepClosed(added)
                  /\ \A n \in Modules :
                        (In(added, n) /\ ~In(mods, n)) =>
                            \/ \E k \in 1..Len(mod_set) : mod_set[k] = n
                            \/ n \in Targets(added, MOD_INFO_INV_DEP)
                            \/ n \in InvTargets(added)

(* C27: a call with INV_DEP among mod_deps on a modinfo that is closed     *)
(* under inverse dependencies leaves it closed after the loop of           *)
(* sr_modinfo_add_mod calls: every inverse data dependency of a REQ entry  *)
(* is in the modinfo with a kind of at least INV_DEP; and every entry that *)
(* became INV_DEP in the loop is an inverse dependency of a REQ entry      *)
C27_InvDepClosure ==
    LET KindIn(ms, m) ==
            IF \E i \in 1..Len(ms) : ms[i].shm_mod = m
            THEN TypeOf(ms[FindMod(ms, m)].state) ELSE 0
        InvOf(ms) ==
            {n \in Modules : \E m \in Modules :
                /\ KindIn(ms, m) >= MOD_INFO_REQ
                /\ \E k \in 1..Len(inv_data_deps(m)) : inv_data_deps(m)[k] = n}
        InvClosed(ms) == \A n \in InvOf(ms) : KindIn(ms, n) >= MOD_INFO_INV_DEP
    IN  (mi_ret \in {"none", "OK"} /\ mi_calls < MaxCalls /\ InvClosed(mods)) =>
           \A mod_set \in SeedSets \ {<<>>}, kind \in {k \in Kinds : "INV_DEP" \in k.mod_deps} :
              LET mod_type == IF kind.as_deps THEN MOD_INFO_DEP ELSE MOD_INFO_REQ
                  added == AddSeeds(mods, mod_set, mod_type, kind.mod_deps)
              IN  /\ InvClosed(added)
                  /\ \A n \in Modules :
                        (KindIn(added, n) = MOD_INFO_INV_DEP /\ KindIn(mods, n) # MOD_INFO_INV_DEP)
                            => n \in InvOf(added)

C29_CachedDataUntouched ==
    /\ flt.data_cached => flt.ds = "running" /\ flt.data \in {"none", "cache"}
    /\ ~flt.shared_changed
    /\ (flt.pc = "filtered" /\ flt.applied) =>
           flt.data = "copy" /\ ~flt.data_cached /\ ~flt.rlock

(* C30: a request and a subscription of which one has a descendant step    *)
(* (//) are never declared disjoint by the static prune                    *)
C30_DslashRequired ==
    (px.pc = "decided" /\ \E i \in 1..Len(px.req), j \in 1..Len(px.sub) :
                              px.req[i].dslash \/ px.sub[j].dslash)
        => px.ret # 0

(* C31: for paths of child steps of which one carries several predicates   *)
(* on a step, the static prune declares the pair disjoint exactly when, on *)
(* a step both have, the node names differ or a predicate pair in the same *)
(* position tests one key for two different values; otherwise it goes on   *)
(* with the following step and reports the subscription as required        *)
C31_EveryPredicatePairCompared ==
    LET r == px.req
        s == px.sub
        shared == 1..(IF Len(r) < Len(s) THEN Len(r) ELSE Len(s))
        PairDisjoint(a, b) ==
            \E i \in 1..(IF Len(a) < Len(b) THEN Len(a) ELSE Len(b)) :
                a[i].k = b[i].k /\ a[i].v # b[i].v
        Disjoint == \E i \in shared :
                        r[i].name # s[i].name \/ PairDisjoint(r[i].keys, s[i].keys)
    IN  ( /\ px.pc = "decided"
          /\ \A i \in 1..Len(r) : ~r[i].dslash
          /\ \A i \in 1..Len(s) : ~s[i].dslash
          /\ \E i \in shared : Len(r[i].keys) >= 2 \/ Len(s[i].keys) >= 2 )
        => px.ret = IF Disjoint THEN 0 ELSE 1

(***************************************************************************)
(* The netconf-config-change notification after a commit.  The module      *)
(* ietf-netconf-notifications keeps its notification subscribers in one    *)
(* Ext SHM array (sr_mod_notif_sub_t: sub_id, evpipe_num, suspended, cid). *)
(***************************************************************************)
MaxNotifSubs == 3

(* a subscriber joins at the end of the array, one is suspended or         *)
(* resumed, the replay support of the module is switched                   *)
NfSubscribe ==
    /\ nf.pc = "idle"
    /\ Len(nf.subs) < MaxNotifSubs
    /\ nf' = [nf EXCEPT !.subs = Append(@, [sub_id |-> Len(@) + 1, suspended |-> FALSE])]
    /\ UNCHANGED <<vars_mi, vars_lo, vars_rw, vars_st, shm, px, ed, sch, pg, flt, sb, ext, cs>>

NfSuspend(i) ==
    /\ nf.pc = "idle"
    /\ i \in 1..Len(nf.subs)
    /\ nf' = [nf EXCEPT !.subs[i].suspended = ~@]
    /\ UNCHANGED <<vars_mi, vars_lo, vars_rw, vars_st, shm, px, ed, sch, pg, flt, sb, ext, cs>>

NfReplay ==
    /\ nf.pc = "idle"
    /\ nf' = [nf EXCEPT !.replay = ~@]
    /\ UNCHANGED <<vars_mi, vars_lo, vars_rw, vars_st, shm, px, ed, sch, pg, flt, sb, ext, cs>>

(* sr_notif_find_subscriber: the whole array and the number of its         *)
(* subscribers that are not suspended                                      *)
sr_notif_find_subscriber(subs) ==
    [notif_subs |-> subs,
     notif_sub_count |-> Cardinality({i \in 1..Len(subs) : ~subs[i].suspended})]

(* sr_shmsub_notif_notify(notif, notif_ts, sid, notif_subs,                *)
(* notif_sub_count): the subscribers that are sent the notification.  The  *)
(* routine is handed the array and a number of subscribers; scan is how it *)
(* walks them: the first notif_sub_count items, those of them that are not *)
(* suspended, or the items that are not suspended until notif_sub_count of *)
(* them were found.                                                        *)
NotifScans == {"first_count", "first_count_active", "count_active"}

sr_shmsub_notif_notify(notif_subs, notif_sub_count, scan) ==
    LET active(n) == {i \in 1..n : ~notif_subs[i].suspended}
        upto == CASE scan = "first_count" -> 1..notif_sub_count
                  [] scan = "first_count_active" -> active(notif_sub_count)
                  [] OTHER -> {i \in active(Len(notif_subs)) :
                                  Cardinality(active(i)) <= notif_sub_count}
    IN  {notif_subs[i].sub_id : i \in upto}

NotifInputs ==
    [changes : BOOLEAN, ds : {"running", "startup", "candidate", "operational"},
     build : {"ok", "nomem"}, scan : NotifScans]

(* sr_modinfo_generate_config_change_notif(mod_info, session), the whole   *)
(* call. in.changes: the diff has a node with an operation; in.build: the  *)
(* outcome of building the notification tree.                              *)
sr_modinfo_generate_config_change_notif(in) ==
    LET found == sr_notif_find_subscriber(nf.subs)
        done(ret, got, stored) ==
            nf' = [nf EXCEPT !.pc = "done", !.in = in, !.ret = ret, !.got = got,
                             !.stored = stored]
    IN
    /\ nf.pc = "idle"
    /\ IF ~in.changes \/ in.ds \in {"candidate", "operational"}
         THEN done("OK", {}, FALSE)
       ELSE IF ~nf.replay /\ found.notif_sub_count = 0
         THEN done("OK", {}, FALSE)
       ELSE IF in.build = "nomem"
         THEN done("SR_ERR_NOMEM", {}, FALSE)
       ELSE done("OK",
                 IF found.notif_sub_count # 0
                   THEN sr_shmsub_notif_notify(found.notif_subs, found.notif_sub_count,
                                               in.scan)
                   ELSE {},
                 nf.replay)
    /\ UNCHANGED <<vars_mi, vars_lo, vars_rw, vars_st, shm, px, ed, sch, pg, flt, sb, ext, cs>>

(* the next commit *)
NfReturn ==
    /\ nf.pc = "done"
    /\ nf' = [IdleNf EXCEPT !.subs = nf.subs, !.replay = nf.replay]
    /\ UNCHANGED <<vars_mi, vars_lo, vars_rw, vars_st, shm, px, ed, sch, pg, flt, sb, ext, cs>>

NextNotif ==
    \/ NfSubscribe
    \/ \E i \in 1..MaxNotifSubs : NfSuspend(i)
    \/ NfReplay
    \/ nf.pc = "idle" /\ \E in \in NotifInputs : sr_modinfo_generate_config_change_notif(in)
    \/ NfReturn

SpecNotif == InitST /\ [][NextNotif]_vars

MaxModSubs == 2
SubMods == {"m1", "m2"}
SubSess == {"s1", "s2"}
SubXpaths == {"NULL", "/m:c"}
(* the item j of a C array of n items is overwritten by the last one *)
ReplaceWithLast(seq, j) ==
    [k \in 1..(Len(seq) - 1) |-> IF k = j THEN seq[Len(seq)] ELSE seq[k]]

(* sr_sub_change_del(mod_name, xpath, ds, change_cb, private_data,         *)
(* priority, sub_opts, subs) between SUBS LOCK and SUBS UNLOCK: the array  *)
(* after the call                                                          *)
sr_sub_change_del(c, mod_name, xpath, ds, change_cb, private_data, priority, sub_opts) ==
    LET match(i, j) ==
            /\ c.items[i].ds = ds /\ c.items[i].module_name = mod_name
            /\ c.items[i].subs[j].xpath = xpath
            /\ c.items[i].subs[j].priority = priority
            /\ c.items[i].subs[j].opts = sub_opts
            /\ c.items[i].subs[j].cb = change_cb
            /\ c.items[i].subs[j].private_data = private_data
        hits == UNION {{<<i, j>> : j \in {k \in 1..Len(c.items[i].subs) : match(i, k)}} :
                          i \in 1..c.count}
        first == CHOOSE h \in hits : \A g \in hits :
                     h[1] < g[1] \/ (h[1] = g[1] /\ h[2] <= g[2])
        i == first[1]
        left == ReplaceWithLast(c.items[i].subs, first[2])
    IN  IF hits = {} THEN c
        ELSE IF left # <<>> THEN [c EXCEPT !.items[i].subs = left]
        ELSE [array |-> IF c.count = 1 THEN "NULL" ELSE "valid",
              count |-> c.count - 1,
              items |-> ReplaceWithLast(c.items, i)]

(* sr_subs_session_count(sess, subs), the change subscriptions *)
sr_subs_session_count(sess, c) ==
    Cardinality(UNION {{<<i, j>> : j \in {k \in 1..Len(c.items[i].subs) :
                                               c.items[i].subs[k].sess = sess}} :
                          i \in 1..Len(c.items)})

(* the steps of sr_sub_change_add that can fail: the realloc of            *)
(* change_subs (mem0), the strdup of mod_name (mem1), sr_shmsub_open_map,  *)
(* the realloc of the subs of the module (mem2), the strdup of xpath (mem3)*)
SubAddFails(found, xpath) ==
    {"none", "mem2"} \cup (IF found THEN {} ELSE {"mem0", "mem1", "open_map"})
                     \cup (IF xpath = "NULL" THEN {} ELSE {"mem3"})

(* sr_sub_change_add(sess, mod_name, xpath, change_cb, private_data,       *)
(* priority, sub_opts, subs), the whole call                               *)
sr_sub_change_add(sess, mod_name, xpath, fail) ==
    LET c == sb.change
        idx == {k \in 1..c.count : c.items[k].module_name = mod_name
                                     /\ c.items[k].ds = "running"}
        found == idx # {}
        i == IF found THEN CHOOSE k \in idx : \A l \in idx : k <= l ELSE c.count + 1
        withmod == IF found THEN c
                   ELSE [array |-> "valid", count |-> c.count + 1,
                         items |-> Append(c.items,
                                     [module_name |-> mod_name, ds |-> "running",
                                      sub_shm |-> "mapped", subs |-> <<>>])]
        sub == [xpath |-> xpath, priority |-> 0, opts |-> 0, cb |-> "cb",
                private_data |-> "NULL", sess |-> sess]
        out ==
            CASE sb.subs_lock = "held" ->
                     [change |-> c, lock |-> "held", ret |-> "SR_ERR_TIME_OUT"]
              [] ~found /\ fail = "mem0" ->
                     [change |-> c, lock |-> "free", ret |-> "SR_ERR_NOMEM"]
              [] ~found /\ fail = "mem1" ->
                     \* error_unlock: free(mem[0]) is the block change_subs points to
                     [change |-> [c EXCEPT !.array = "freed"], lock |-> "free",
                      ret |-> "SR_ERR_NOMEM"]
              [] ~found /\ fail = "open_map" ->
                     \* and mem[1] is set: --change_sub_count, never incremented
                     [change |-> [c EXCEPT !.array = "freed", !.count = @ - 1],
                      lock |-> "free", ret |-> "SR_ERR_SYS"]
              [] ~found /\ fail = "mem2" ->
                     [change |-> [c EXCEPT !.array = "freed"], lock |-> "free",
                      ret |-> "SR_ERR_NOMEM"]
              [] found /\ fail = "mem2" ->
                     \* error_unlock: sr_shm_clear(&change_sub->sub_shm) of the entry found
                     [change |-> [c EXCEPT !.items[i].sub_shm = "cleared"], lock |-> "free",
                      ret |-> "SR_ERR_NOMEM"]
              [] fail = "mem3" ->
                     \* SR_CHECK_MEM_RET: returns at once
                     [change |-> withmod, lock |-> "held", ret |-> "SR_ERR_NOMEM"]
              [] OTHER ->
                     [change |-> [withmod EXCEPT !.items[i].subs = Append(@, sub)],
                      lock |-> "free", ret |-> "OK"]
    IN
    /\ sb.pc = "idle"
    /\ c.array # "freed"
    /\ fail \in SubAddFails(found, xpath)
    /\ found => Len(c.items[i].subs) < MaxModSubs
    /\ sb' = [sb EXCEPT !.change = out.change, !.subs_lock = out.lock,
                         !.last = [op |-> "change_add", sess |-> sess, ret |-> out.ret,
                                   before |-> c]]
    /\ UNCHANGED <<vars_mi, vars_lo, vars_rw, vars_st, shm, px, ed, sch, pg, flt, nf, ext, cs>>

(* sr_subs_session_del(sess, subs), the change subscriptions; fail: the    *)
(* outcome of sr_shmsub_change_listen_dismiss_event and of                 *)
(* sr_shmmod_change_subscription_stop for the first subscription found.    *)
(* With subs_lock held sr_sub_change_del returns at its SUBS LOCK timeout  *)
(* and the loops restart on the same subscription: pc "spin".              *)
sr_subs_session_del(sess, fail) ==
    LET c == sb.change
        RECURSIVE loop(_)
        loop(cur) ==
            LET hits == UNION {{<<i, j>> : j \in {k \in 1..Len(cur.items[i].subs) :
                                                     cur.items[i].subs[k].sess = sess}} :
                                  i \in 1..cur.count}
                h == CHOOSE x \in hits : \A g \in hits :
                         x[1] < g[1] \/ (x[1] = g[1] /\ x[2] <= g[2])
                m == cur.items[h[1]]
                u == m.subs[h[2]]
            IN  IF hits = {} THEN cur
                ELSE loop(sr_sub_change_del(cur, m.module_name, u.xpath, m.ds, u.cb,
                                            u.private_data, u.priority, u.opts))
        has == sr_subs_session_count(sess, c) # 0
    IN
    /\ sb.pc = "idle"
    /\ c.array # "freed"
    /\ fail # "none" => has
    /\ sb' = [sb EXCEPT
                 !.pc = IF has /\ fail = "none" /\ sb.subs_lock = "held" THEN "spin" ELSE "idle",
                 !.change = IF fail = "none" /\ sb.subs_lock = "free" THEN loop(c) ELSE c,
                 !.last = [op |-> "session_del", sess |-> sess,
                           ret |-> IF fail = "none" THEN "OK" ELSE "SR_ERR_INTERNAL",
                           before |-> c]]
    /\ UNCHANGED <<vars_mi, vars_lo, vars_rw, vars_st, shm, px, ed, sch, pg, flt, nf, ext, cs>>

NextSubs ==
    \/ \E sess \in SubSess, m \in SubMods, x \in SubXpaths :
          \E fail \in {"none", "mem0", "mem1", "open_map", "mem2", "mem3"} :
              sr_sub_change_add(sess, m, x, fail)
    \/ \E sess \in SubSess, fail \in {"none", "dismiss", "stop"} :
          sr_subs_session_del(sess, fail)

SpecSubs == InitST /\ [][NextSubs]_vars

(* C33: a subscription add that fails leaves the structure as it was: the  *)
(* same array, the same module entries with their subscriptions and SHM    *)
(* mapping, the same count.                                                *)
C33_FailedAddLeavesStructure ==
    (sb.last.op = "change_add" /\ sb.last.ret # "OK") => sb.change = sb.last.before

(* C38: after sr_subs_session_del(sess) returned OK on a structure without *)
(* empty module entries, no subscription of sess is left, every other      *)
(* session has in every module the subscriptions it had before (as many    *)
(* of each), and no module entry is empty.                                 *)
C38_SessionDelRemovesOwnOnly ==
    LET b == sb.last.before
        a == sb.change
        all(c) == UNION {{<<c.items[i].module_name, c.items[i].subs[j]>> :
                            j \in 1..Len(c.items[i].subs)} : i \in 1..Len(c.items)}
        occ(c, p) == Cardinality(UNION {{<<i, j>> :
                         j \in {k \in 1..Len(c.items[i].subs) :
                                   c.items[i].module_name = p[1] /\ c.items[i].subs[k] = p[2]}} :
                         i \in 1..Len(c.items)})
    IN  (/\ sb.last.op = "session_del" /\ sb.last.ret = "OK" /\ sb.pc = "idle"
         /\ sb.subs_lock = "free"
         /\ \A i \in 1..Len(b.items) : b.items[i].subs # <<>>)
            => /\ sr_subs_session_count(sb.last.sess, a) = 0
               /\ \A p \in all(a) \cup all(b) :
                      p[2].sess # sb.last.sess => occ(a, p) = occ(b, p)
               /\ \A i \in 1..Len(a.items) : a.items[i].subs # <<>>

(* C39: between the calls on the subscription structure subs_lock is free: *)
(* every call that took it released it before it returned.                 *)
C39_SubsLockReleased ==
    sb.pc = "idle" => sb.subs_lock = "free"

(***************************************************************************)
(* The Ext SHM and two of its offset arrays: the event pipes of a          *)
(* connection (uint32_t items, no dynamic attribute) and the change        *)
(* subscriptions of a module (sr_mod_change_sub_t items, the xpath as the  *)
(* dynamic attribute).  ext.size is shm_ext->size, ext.wasted is           *)
(* sr_ext_shm_t.wasted, ext.arr[a] is the array: its offset, its count and *)
(* the sizes of the dynamic attributes of its items.  The Ext SHM starts   *)
(* with the sr_ext_shm_t header (a size_t).                                *)
(***************************************************************************)
MaxItems == 3
MaxExtSize == 128
ExtArrays == {"evpipes", "change_subs"}
ItemSize == [evpipes |-> 4, change_subs |-> 24]
DynSizes == [evpipes |-> {0}, change_subs |-> {0, 8}]

(* SR_SHM_SIZE(size): size rounded up to the alignment of 8 bytes *)
SR_SHM_SIZE(size) == ((size + 7) \div 8) * 8

RECURSIVE SumSeq(_)
SumSeq(s) == IF s = <<>> THEN 0 ELSE Head(s) + SumSeq(Tail(s))

(* sr_shmrealloc_add(shm_ext, shm_array, shm_count, in_ext_shm, item_size, *)
(* add_idx, new_item, dyn_attr_size, dyn_attr_off), the whole call on      *)
(* array a; remap: the outcome of sr_shm_remap                             *)
sr_shmrealloc_add(a, add_idx, dyn_attr_size, remap) ==
    LET o == ext.arr[a]
        item_size == ItemSize[a]
        idx == IF add_idx = -1 THEN o.count ELSE add_idx
        resize == SR_SHM_SIZE((o.count + 1) * item_size) + dyn_attr_size
                      > SR_SHM_SIZE(o.count * item_size)
        new_array_off == ext.size
        attr_off == new_array_off + SR_SHM_SIZE((o.count + 1) * item_size)
        items == SubSeq(o.dyn, 1, idx) \o <<dyn_attr_size>> \o SubSeq(o.dyn, idx + 1, o.count)
    IN
    /\ o.count < MaxItems
    /\ add_idx \in -1..o.count
    /\ ~resize => remap = "ok"
    /\ resize => attr_off + dyn_attr_size <= MaxExtSize
    /\ IF resize /\ remap = "fail"
         THEN ext' = [ext EXCEPT !.last = [op |-> "add", relocated |-> FALSE,
                                           ret |-> "SR_ERR_NOMEM"]]
       ELSE IF resize
         THEN ext' = [ext EXCEPT
                        !.size = attr_off + dyn_attr_size,
                        !.wasted = @ + SR_SHM_SIZE(o.count * item_size),
                        !.arr[a] = [off |-> new_array_off, count |-> o.count + 1,
                                    dyn |-> items],
                        !.last = [op |-> "add", relocated |-> TRUE, ret |-> "OK"]]
       ELSE ext' = [ext EXCEPT
                        !.arr[a] = [off |-> o.off, count |-> o.count + 1, dyn |-> items],
                        !.last = [op |-> "add", relocated |-> FALSE, ret |-> "OK"]]
    /\ UNCHANGED <<vars_mi, vars_lo, vars_rw, vars_st, shm, px, ed, sch, pg, flt, nf, sb, cs>>

(* the bytes sr_shmrealloc_del adds to wasted (common.c:2281-2282) *)
DelWastedNoAttr(shm_count, item_size, dyn_shm_size) ==
    SR_SHM_SIZE(shm_count * item_size) - SR_SHM_SIZE((shm_count - 1) * item_size)

DelWasted(shm_count, item_size, dyn_shm_size) ==
    SR_SHM_SIZE(shm_count * item_size) - SR_SHM_SIZE((shm_count - 1) * item_size)
        + dyn_shm_size

(* sr_shmrealloc_del(ext_shm_addr, shm_array, shm_count, item_size,        *)
(* del_idx, dyn_shm_size), called with the size of the dynamic attribute   *)
(* of the item removed                                                     *)
sr_shmrealloc_del(a, del_idx) ==
    LET o == ext.arr[a]
    IN
    /\ del_idx \in 0..(o.count - 1)
    /\ ext' = [ext EXCEPT
                  !.wasted = @ + DelWasted(o.count, ItemSize[a], o.dyn[del_idx + 1]),
                  !.arr[a] = [off |-> IF o.count = 1 THEN 0 ELSE o.off,
                              count |-> o.count - 1,
                              dyn |-> SubSeq(o.dyn, 1, del_idx)
                                          \o SubSeq(o.dyn, del_idx + 2, o.count)],
                  !.last = [op |-> "del", relocated |-> FALSE, ret |-> "OK"]]
    /\ UNCHANGED <<vars_mi, vars_lo, vars_rw, vars_st, shm, px, ed, sch, pg, flt, nf, sb, cs>>

NextExt ==
    \/ \E a \in ExtArrays, add_idx \in -1..MaxItems, remap \in {"ok", "fail"} :
          \E dyn_attr_size \in DynSizes[a] : sr_shmrealloc_add(a, add_idx, dyn_attr_size, remap)
    \/ \E a \in ExtArrays, del_idx \in 0..MaxItems : sr_shmrealloc_del(a, del_idx)

SpecExt == InitST /\ [][NextExt]_vars

(* C34: every step on an array adds to wasted the bytes that leave the     *)
(* live array (the aligned old block when the array moved to a new offset, *)
(* nothing when it grew in place, the aligned bytes freed by the shrink    *)
(* and the dynamic attribute of the item when one was removed), and after  *)
(* it the size of the Ext SHM less wasted is the header and the live       *)
(* blocks: every array aligned and the dynamic attributes of its items.    *)
C34_WastedIsDeadBytes ==
    [][/\ \A a \in ExtArrays :
            LET o == ext.arr[a]
                n == ext'.arr[a]
                s == ItemSize[a]
            IN  /\ (n.count = o.count + 1 /\ n.off # o.off)
                       => ext'.wasted - ext.wasted = SR_SHM_SIZE(o.count * s)
                /\ (n.count = o.count + 1 /\ n.off = o.off) => ext'.wasted = ext.wasted
                /\ n.count = o.count - 1
                       => ext'.wasted - ext.wasted =
                              (SR_SHM_SIZE(o.count * s) - SR_SHM_SIZE(n.count * s))
                                  + (SumSeq(o.dyn) - SumSeq(n.dyn))
       /\ ext'.size - ext'.wasted =
              8 + SumSeq([i \in 1..2 |->
                           LET a == IF i = 1 THEN "evpipes" ELSE "change_subs"
                           IN  SR_SHM_SIZE(ext'.arr[a].count * ItemSize[a])
                                   + SumSeq(ext'.arr[a].dyn)])
      ]_vars

(* an array grew in place after bytes were wasted, and an item with a      *)
(* dynamic attribute is live                                               *)
C34_Witness ==
    /\ ext.last.op = "add" /\ ~ext.last.relocated /\ ext.last.ret = "OK"
    /\ ext.wasted > 0
    /\ \E i \in 1..Len(ext.arr["change_subs"].dyn) : ext.arr["change_subs"].dyn[i] > 0

(* C35: whatever the interleaving of the threads of the caching            *)
(* connection, the cache has at most one entry for a module, the data of a *)
(* module are in the cached tree at most once, and mod_count is the number *)
(* of entries the array mods was allocated for.                            *)
C35_CacheEntriesUnique ==
    /\ \A i, j \in 1..Len(mod_cache.mods) :
           (i # j /\ mod_cache.mods[i].ly_mod \in StMods)
               => mod_cache.mods[i].ly_mod # mod_cache.mods[j].ly_mod
    /\ \A m \in StMods : Len(mod_cache.data[m]) <= 1
    /\ Len(mod_cache.mods) = mod_cache.alloc

(* C36: a load for which sr_modcache_module_running_update returned        *)
(* success (the thread is about to use the cached data of M, under the     *)
(* module lock) finds an entry of M whose version is the ver of M and      *)
(* cached data of M that are the data of that version; so a call that      *)
(* could not update the entry did not return success.                      *)
C36_EnsureSuccessMeansCurrent ==
    \A t \in StThreads :
        (thr[t].pc = "dup_data" /\ thr[t].op.kind = "read") =>
            LET m == thr[t].op.m
            IN  /\ \E i \in 1..Len(mod_cache.mods) :
                       mod_cache.mods[i].ly_mod = m /\ mod_cache.mods[i].ver = shm_ver[m]
                /\ mod_cache.data[m] # <<>>
                /\ \A k \in 1..Len(mod_cache.data[m]) : mod_cache.data[m][k] = shm_ver[m]

(* C37: the cache READ locks held are those of the modinfos with           *)
(* data_cached: while no thread is inside the cache update the lock has    *)
(* one reader for every modinfo with the flag and no more, and when every  *)
(* modinfo was freed the lock is free.                                     *)
C37_ReadLockWhileCached ==
    /\ (\A t \in StThreads : thr[t].pc \notin {"ensure_wlock", "ensure_rlock"})
           => mod_cache.lock.readers = Cardinality({t \in StThreads : thr[t].cached})
    /\ (\A t \in StThreads : thr[t].pc = "idle")
           => mod_cache.lock = [readers |-> 0, writer |-> "none"]

(***************************************************************************)
(* The lock state a connection records for one SHM lock                    *)
(* (sr_conn_shm_lock_t: mode, rcount) and the threads of the connection.   *)
(* A thread takes the SHM lock itself (cs.lock), then records it with      *)
(* sr_shmlock_update(shmlock, mode, 1); it records the unlock with         *)
(* sr_shmlock_update(shmlock, mode, 0) and then releases the SHM lock.     *)
(* The accesses of sr_shmlock_update to mode are plain loads and stores,   *)
(* those to rcount are atomic; every one of them is a step.                *)
(***************************************************************************)
CsThreads == {"c1", "c2", "c3"}

(* the caller: the SHM lock is granted and sr_shmlock_update(.., 1) begins *)
CsLock(t, mode) ==
    /\ cs.thr[t].pc = "idle"
    /\ sr_rwlock_granted(cs.lock, mode)
    /\ cs' = [cs EXCEPT !.lock = sr_rwlock_take(@, mode, t),
                         !.thr[t] = [pc |-> IF mode = "READ" THEN "lock_mode" ELSE "lock_write",
                                     held |-> mode, tmp |-> 0]]
    /\ UNCHANGED <<vars_mi, vars_lo, vars_rw, vars_st, shm, px, ed, sch, pg, flt, nf, sb, ext>>

(* the caller: sr_shmlock_update(.., 0) begins *)
CsUnlock(t) ==
    /\ cs.thr[t].pc = "held"
    /\ cs' = [cs EXCEPT !.thr[t].pc = IF cs.thr[t].held = "READ" THEN "unlock_dec"
                                      ELSE "unlock_write"]
    /\ UNCHANGED <<vars_mi, vars_lo, vars_rw, vars_st, shm, px, ed, sch, pg, flt, nf, sb, ext>>

(* sr_shmlock_update(shmlock, mode, lock): the next access of thread t to  *)
(* the record.  rcount is a uint8_t.  After the last access of an unlock   *)
(* the caller releases the SHM lock.                                       *)
sr_shmlock_update(t) ==
    LET pc == cs.thr[t].pc
        goto(p) == [cs EXCEPT !.thr[t].pc = p]
        unlocked(c) == [c EXCEPT !.lock = sr_rwlock_drop(@, cs.thr[t].held),
                                 !.thr[t] = [pc |-> "idle", held |-> "NONE", tmp |-> 0]]
    IN
    /\ pc \notin {"idle", "held", "abort"}
    /\ cs' =
         CASE pc = "lock_mode" ->       \* if (shmlock->mode == SR_LOCK_NONE)
                  goto(IF cs.mode = "NONE" THEN "lock_set" ELSE "lock_inc")
           [] pc = "lock_set" ->        \* shmlock->mode = SR_LOCK_READ
                  [goto("lock_inc") EXCEPT !.mode = "READ"]
           [] pc = "lock_inc" ->        \* ATOMIC_INC_RELAXED(shmlock->rcount) == UINT8_MAX
                  [goto(IF cs.rcount = 255 THEN "abort" ELSE "held")
                      EXCEPT !.rcount = (@ + 1) % 256]
           [] pc = "lock_write" ->      \* shmlock->mode = SR_LOCK_WRITE
                  [goto("held") EXCEPT !.mode = "WRITE"]
           [] pc = "unlock_dec" ->      \* ATOMIC_DEC_RELAXED(shmlock->rcount) == 0
                  [goto(IF cs.rcount = 0 THEN "abort" ELSE "unlock_load")
                      EXCEPT !.rcount = (@ - 1) % 256]
           [] pc = "unlock_load" ->     \* ATOMIC_LOAD_RELAXED(shmlock->rcount) == 0
                  IF cs.rcount = 0 THEN goto("unlock_mode") ELSE unlocked(cs)
           [] pc = "unlock_mode" ->     \* && (shmlock->mode == SR_LOCK_READ)
                  IF cs.mode = "READ" THEN goto("unlock_set") ELSE unlocked(cs)
           [] pc = "unlock_set" ->      \* shmlock->mode = SR_LOCK_NONE
                  unlocked([cs EXCEPT !.mode = "NONE"])
           [] pc = "unlock_write" ->    \* if (ATOMIC_LOAD_RELAXED(shmlock->rcount))
                  [goto("unlock_wset") EXCEPT !.thr[t].tmp = cs.rcount]
           [] OTHER ->                  \* shmlock->mode = SR_LOCK_READ or SR_LOCK_NONE
                  unlocked([cs EXCEPT !.mode = IF cs.thr[t].tmp # 0 THEN "READ" ELSE "NONE"])
    /\ UNCHANGED <<vars_mi, vars_lo, vars_rw, vars_st, shm, px, ed, sch, pg, flt, nf, sb, ext>>

NextConnLock ==
    \/ \E t \in CsThreads, mode \in {"READ", "WRITE"} : CsLock(t, mode)
    \/ \E t \in CsThreads : sr_shmlock_update(t)
    \/ \E t \in CsThreads : CsUnlock(t)

SpecConnLock == InitST /\ [][NextConnLock]_vars

(* C40: while no thread is inside sr_shmlock_update, the recorded mode is  *)
(* NONE exactly when rcount is zero and the mode is not WRITE; and no      *)
(* unlock finds rcount at zero.                                            *)
C40_RecordedModeMatchesCount ==
    /\ (\A t \in CsThreads : cs.thr[t].pc \in {"idle", "held"})
           => (cs.mode = "NONE" <=> (cs.rcount = 0 /\ cs.mode # "WRITE"))
    /\ \A t \in CsThreads : cs.thr[t].pc # "abort"
====
